---- MODULE Spec2Model ----
(***************************************************************************)
(* Verification model of the decision-and-control core of the Polymarket  *)
(* trade bot: the dip-arbitrage round engine (agents/arbitrage/dip_arb.py),*)
(* the risk manager (agents/arbitrage/risk 2.py) and the position ledger   *)
(* (agents/arbitrage/position_manager.py).                                 *)
(*                                                                         *)
(* Units: prices are in cents (0.95 -> 95), time is in whole seconds.      *)
(* An Optional[T] value is a sequence: <<>> is None, <<x>> is the value x. *)
(***************************************************************************)
EXTENDS Integers, Sequences, FiniteSets, TLC

None == <<>>
Some(x) == <<x>>
IsSome(o) == o # <<>>
Val(o) == o[1]

\* ------------------------------------------------------------------------
\* Bounds of the model
\* ------------------------------------------------------------------------
\* time.time() at construction of the services
StartTime == 3
\* number of seconds after StartTime during which callers still make calls
CallWindow == 1
\* rounds a DipArbService starts (_round_counter is capped here)
MaxRounds == 2
\* maxlen of the deque _price_history (1000 in the code): a quote appended
\* to a full history pushes the oldest one out
MaxHistory == 2
\* rotate_to_next_market calls (stats.markets_rotated is capped here)
MaxRotations == 1
\* _execute_merge tasks pending in the event loop at one time
MaxMergeTasks == 1

\* last instant at which a caller calls the service; timers run out after it
CallHorizon == StartTime + CallWindow

\* ------------------------------------------------------------------------
\* Inputs
\* ------------------------------------------------------------------------
Sides == {"UP", "DOWN"}
Markets == {"m1"}
\* (up_ask, down_ask) of a quote
Quotes == { << 50, 50 >>, << 25, 50 >> }
\* timestamp argument of update_prices; 0: none given
Timestamps(t) == {0}
\* quotes and timestamp arguments of the specification of the dip detector:
\* a dip of exactly dip_threshold_pct, with the sum above and below
\* sum_target, and an absent (zero) ask; a timestamp older than every clock
\* reading
WindowQuotes == { << 50, 50 >>, << 35, 65 >>, << 35, 35 >>, << 0, 50 >> }
QuoteTimestamps == { 0, 2 }
\* (side, price, shares) of a leg-1 fill and of a leg-2 fill
Leg1Fills == { << "UP", 45, 20 >>, << "DOWN", 50, 40 >> }
Leg2Fills == { << "DOWN", 45, 20 >> }
Leg2Timeouts == {2}

\* the longest configured leg-2 timeout can still run out after the last call
MaxTime ==
    CallHorizon + (CHOOSE t \in Leg2Timeouts : \A u \in Leg2Timeouts : u <= t)

\* DipArbConfig: the fields the round engine reads. (enable_stop_loss,
\* auto_merge) is one of the pairs of Switches.
Switches == { << TRUE, TRUE >>, << FALSE, FALSE >> }
Configs ==
    { c \in [ sliding_window_s : {1},
              dip_threshold_pct : {30},
              sum_target : {95},
              leg2_timeout_seconds : Leg2Timeouts,
              enable_stop_loss : BOOLEAN,
              auto_merge : BOOLEAN,
              position_size : {1000},
              execution_cooldown : {1} ] :
        << c.enable_stop_loss, c.auto_merge >> \in Switches }

\* RiskManager: seconds the clock runs, date changes, trades recorded
RiskWindow == 2
MaxDays == 1
MaxTrades == 2

\* config.py (spread in thousandths, size in whole units)
MIN_PROFIT_SPREAD == 3
MAX_POSITION_SIZE == 50

RiskMarkets == { "m1", "m2" }
Dates == 0..MaxDays
RiskParams ==
    [ daily_pnl_limit : { -2 }, max_open_positions : { 1 },
      max_daily_trades : { 2 }, circuit_breaker_cooldown : { 2 },
      market_cooldown_duration : { 2 }, min_trade_interval : { 1 } ]
\* record_trade arguments << pnl, is_winner, market_id >>
Trades == { << -2, FALSE, << "m2" >> >>, << 1, TRUE, << >> >>,
            << -1, FALSE, << >> >> }
\* ArbitrageOpportunity
Opportunities ==
    { [ market_id |-> "m1", potential_profit |-> 5, total_cost |-> 1,
        max_volume |-> 2 ],
      [ market_id |-> "m2", potential_profit |-> 1, total_cost |-> 1,
        max_volume |-> 2 ],
      [ market_id |-> "m1", potential_profit |-> 5, total_cost |-> 2,
        max_volume |-> 2 ],
      [ market_id |-> "m2", potential_profit |-> 5, total_cost |-> 1,
        max_volume |-> 0 ] }
Balances == { 2 }
OpenCounts == { 0, 1 }

\* PositionManager: calls made
MaxLedgerCalls == 4

LedgerKeys == { << "m1", "t1" >>, << "m1", "t2" >> }
EntryPrices == { 40, 60 }
EntrySizes == { 10, 20 }
ExitPrices == { 50 }
CloseSizes == { None, Some(0), Some(10) }
MarkPrices == { 0, 45 }
ForcePrices == { << >>, << 55 >> }

\* strategy.py: the sides of an orderbook (price in thousandths, size), the
\* outcome tokens of a market and min_profit (in millionths)
FEE_RATE == 1
OrderSummary(price, size) == [ price |-> price, size |-> size ]
AskSides ==
    { << >>, << OrderSummary(400, 100) >>, << OrderSummary(550, 50) >>,
      << OrderSummary(550, 50), OrderSummary(600, 200) >>,
      << OrderSummary(30, 20) >> }
BidSides ==
    { << >>, << OrderSummary(350, 30) >>, << OrderSummary(594, 80) >> }
Tokens == << "token_a", "token_b", "token_c" >>
MinProfits == { 5000, 49050 }

\* price_utils: prices of a quote and profit thresholds, in thousandths
PriceLevels == { 0, 350, 400, 470, 480, 490, 500, 550, 647, 650, 1000 }
Thresholds == { 1, 3, 20, 50 }

VARIABLES
    now,                  \* time.time()
    config,               \* DipArbService.config
    current_round,        \* DipArbService._current_round (Optional)
    market,               \* DipArbService._market (Optional)
    round_counter,        \* DipArbService._round_counter
    last_execution_time,  \* DipArbService._last_execution_time
    price_history,        \* DipArbService._price_history
    stop_loss_task,       \* DipArbService._stop_loss_task (Optional)
    merge_tasks,          \* pending _execute_merge tasks of the event loop
    exit_call,            \* an emergency_exit_leg1 is suspended in sell_fn
    markets_rotated,      \* DipArbService._stats.markets_rotated
    sell_signals,         \* is_sell signals handed to _emit_signal, in order
    ended,                \* the round object dropped last: its id, its
                          \* phase and whether it was marked merged
    dip_op,               \* what the operation that ran last returned
    dip_stats,            \* DipArbService._stats: the counters of merges
                          \* and of stop-losses.  The other counters and
                          \* sums are written by the calls and read by
                          \* none; they are left out.
    on_signal,            \* DipArbService._on_signal: "none", or how the
                          \* registered handler behaves ("ok", "raise")
    on_merge,             \* DipArbService._on_merge, likewise
    merges                \* the calls made to the merge handler, in order

dipVars == << now, config, current_round, market, round_counter,
              last_execution_time, price_history, stop_loss_task, merge_tasks,
              exit_call, markets_rotated, sell_signals, ended, dip_op,
              dip_stats, on_signal, on_merge, merges >>

VARIABLES
    rm,                   \* the RiskManager
    risk_clock,           \* time.time() as the RiskManager reads it
    today,                \* RiskManager._get_today()
    pnl_log,              \* the pnl of every record_trade call, in order
    last_breach,          \* when record_trade last took daily_pnl from
                          \* above daily_pnl_limit to or below it (Optional)
    risk_op,              \* the RiskManager operation that ran last: what
                          \* it returned and the market or metrics it was
                          \* about
    approved              \* the markets whose evaluation holds an approval
                          \* of check_opportunity and has not yet called
                          \* record_trade

riskVars == << rm, risk_clock, today, pnl_log, last_breach, risk_op,
               approved >>

VARIABLES
    positions,            \* PositionManager.positions, in insertion order
    closed_positions,     \* PositionManager.closed_positions
    trades,               \* PositionManager.trades
    ledger_calls,         \* number of PositionManager calls made
    ledger_op             \* the PositionManager operation that ran last

ledgerVars == << positions, closed_positions, trades, ledger_calls,
                 ledger_op >>

VARIABLES
    price_op              \* the quote handed to price_utils, the function
                          \* called on it and what it returned

priceVars == << price_op >>

VARIABLES
    strategy_op           \* the ArbitrageStrategy: its min_profit, the
                          \* orderbooks handed to it, the detector called
                          \* on them and what it returned

strategyVars == << strategy_op >>

vars == << dipVars, riskVars, ledgerVars, priceVars, strategyVars >>

\* ------------------------------------------------------------------------
\* dip_arb.py: data
\* ------------------------------------------------------------------------
WAITING == "waiting"
LEG1_FILLED == "leg1_filled"
COMPLETED == "completed"
STOP_LOSS == "stop_loss"

\* token_id, order_ids and timestamp of a leg are carried along and read by
\* no decision; they are left out.
DipArbLeg(side, price, shares) ==
    [ side |-> side, price |-> price, shares |-> shares ]

DipArbRoundState(id) ==
    [ round_id |-> id, phase |-> WAITING, leg1 |-> None, leg2 |-> None,
      leg1_fill_time |-> None, total_cost |-> 0, profit |-> 0,
      merged |-> FALSE, stop_loss_triggered |-> FALSE ]

PricePoint(ts, up_ask, down_ask, up_bid, down_bid) ==
    [ timestamp |-> ts, up_ask |-> up_ask, down_ask |-> down_ask,
      up_bid |-> up_bid, down_bid |-> down_bid ]

DipArbSignal(type, side, price, shares, round_id, is_sell) ==
    [ signal_type |-> type, side |-> side, target_price |-> price,
      shares |-> shares, round_id |-> round_id, is_sell |-> is_sell ]

\* the record of a call: its name, whether it acted, the signal it returned
Returned(op, ok, signal) == [ op |-> op, ok |-> ok, signal |-> signal ]
\* the operation returns nothing
NoResult == Returned("", TRUE, None)

Phase == IF IsSome(current_round) THEN Val(current_round).phase ELSE "idle"

\* ------------------------------------------------------------------------
\* dip_arb.py: helpers (each yields the new value of what it assigns)
\* ------------------------------------------------------------------------
\* _reset_round: the round reference is dropped; `ended` keeps the id, the
\* phase and the merged flag the dropped round object had.
Dropped(r) ==
    Some([ round_id |-> r.round_id, phase |-> r.phase, merged |-> r.merged ])
ResetRoundEnded(round) == IF IsSome(round) THEN Dropped(Val(round)) ELSE ended

\* _emit_signal(signal): whether the exception of a raising handler leaves
\* _emit_signal; "except Exception" catches and logs it
EmitSignalPropagates(handler) == handler = "raise"
EmitSignalRaises(handler) == FALSE

\* _start_stop_loss_timer: a task sleeping leg2_timeout_seconds from now
\* (for_round: the round that was current when the task was created)
StartStopLossTimer(round) ==
    Some([ deadline |-> now + config.leg2_timeout_seconds, done |-> FALSE,
           for_round |-> round.round_id ])

\* _detect_sliding_window_dip(side, current_ts) over history h: whether a dip
\* percentage is returned.
AskOf(p, side) == IF side = "UP" THEN p.up_ask ELSE p.down_ask

WindowPrices(h, side, current_ts) ==
    SelectSeq(h, LAMBDA p :
        /\ p.timestamp >= current_ts - config.sliding_window_s
        /\ AskOf(p, side) > 0)

SeqMax(s) ==
    IF s = << >> THEN 0
    ELSE CHOOSE v \in { s[i] : i \in 1..Len(s) } :
            \A i \in 1..Len(s) : s[i] <= v

\* "dip_pct >= self.config.dip_threshold"
DipExceedsThreshold(max_price, current_price) ==
    (max_price - current_price) * 100 > config.dip_threshold_pct * max_price
DipReachesThreshold(max_price, current_price) ==
    (max_price - current_price) * 100 >= config.dip_threshold_pct * max_price

DetectSlidingWindowDip(h, side, current_ts) ==
    LET wp == WindowPrices(h, side, current_ts)
        prices == [ i \in 1..Len(wp) |-> AskOf(wp[i], side) ]
    IN  IF Len(wp) < 2 THEN FALSE
        ELSE LET max_price == SeqMax(SubSeq(prices, 1, Len(wp) - 1))
                 current_price == prices[Len(wp)]
             IN  /\ max_price # 0
                 /\ DipReachesThreshold(max_price, current_price)

\* _create_leg1_signal
CreateLeg1Signal(side, price, round) ==
    DipArbSignal("leg1", side, price,
                 IF price > 0 THEN config.position_size \div price ELSE 0,
                 IF IsSome(round) THEN Val(round).round_id ELSE 0, FALSE)

\* _check_leg1_opportunity: UP is looked at first
CheckLeg1Opportunity(h, round, up_ask, down_ask, ts) ==
    IF DetectSlidingWindowDip(h, "UP", ts)
    THEN Some(CreateLeg1Signal("UP", up_ask, round))
    ELSE IF DetectSlidingWindowDip(h, "DOWN", ts)
    THEN Some(CreateLeg1Signal("DOWN", down_ask, round))
    ELSE None

\* the share count a Leg2 signal carries: "shares=leg1.shares"
Leg2SharesFromPositionSize(leg1) == config.position_size \div leg1.price
Leg2Shares(leg1) == leg1.shares

\* _check_leg2_opportunity, "if total_cost <= self.config.sum_target"
SumTargetBeaten(total_cost) == total_cost < config.sum_target
SumTargetMet(total_cost) == total_cost <= config.sum_target

\* _check_leg2_opportunity
CheckLeg2Opportunity(round, up_ask, down_ask) ==
    IF ~IsSome(round) \/ ~IsSome(Val(round).leg1) THEN None
    ELSE LET leg1 == Val(Val(round).leg1)
             hedge_side == IF leg1.side = "UP" THEN "DOWN" ELSE "UP"
             hedge_price == IF leg1.side = "UP" THEN down_ask ELSE up_ask
             total_cost == leg1.price + hedge_price
         IN  IF SumTargetMet(total_cost)
             THEN Some(DipArbSignal("leg2", hedge_side, hedge_price,
                                    Leg2Shares(leg1), Val(round).round_id,
                                    FALSE))
             ELSE None

\* update_prices: "if self._current_round is None"
NeedsNewRoundWhenEnded(round) ==
    ~IsSome(round) \/ Val(round).phase \in { COMPLETED, STOP_LOSS }
NeedsNewRound(round) == ~IsSome(round)

\* ------------------------------------------------------------------------
\* dip_arb.py: operations
\* ------------------------------------------------------------------------
CallerActive == now <= CallHorizon

\* set_market body, shared with rotate_to_next_market
SetMarketKeepingRound(m) ==
    /\ market' = Some(m)
    /\ price_history' = << >>
    /\ UNCHANGED << current_round, stop_loss_task, ended >>
SetMarketEffect(m) ==
    /\ market' = Some(m)
    /\ ended' = ResetRoundEnded(current_round)
    /\ current_round' = None
    /\ stop_loss_task' = None
    /\ price_history' = << >>

\* set_market(market)
SetMarket(m) ==
    /\ CallerActive
    /\ SetMarketEffect(m)
    /\ dip_op' = NoResult
    /\ UNCHANGED << riskVars, ledgerVars, priceVars, strategyVars >>
    /\ UNCHANGED << now, config, round_counter, last_execution_time,
                    merge_tasks, exit_call, markets_rotated, sell_signals >>
    /\ UNCHANGED << dip_stats, on_signal, on_merge, merges >>

\* rotate_to_next_market(next_market)
RotateToNextMarket(m) ==
    /\ CallerActive
    /\ markets_rotated < MaxRotations
    /\ markets_rotated' = markets_rotated + 1
    /\ SetMarketEffect(m)
    /\ dip_op' = Returned("rotate_to_next_market", TRUE, None)
    /\ UNCHANGED << riskVars, ledgerVars, priceVars, strategyVars >>
    /\ UNCHANGED << now, config, round_counter, last_execution_time,
                    merge_tasks, exit_call, sell_signals >>
    /\ UNCHANGED << dip_stats, on_signal, on_merge, merges >>

\* update_prices(up_ask, down_ask, up_bid, down_bid, timestamp)
UpdatePrices(up_ask, down_ask, up_bid, down_bid, timestamp) ==
    LET ts == IF timestamp = 0 THEN now ELSE timestamp
        kept == IF Len(price_history) < MaxHistory THEN price_history
                ELSE Tail(price_history)
        h == Append(kept, PricePoint(ts, up_ask, down_ask, up_bid, down_bid))
        cooling == (ts - last_execution_time) < config.execution_cooldown
        starts == ~cooling /\ NeedsNewRound(current_round)
        round == IF starts THEN Some(DipArbRoundState(round_counter + 1))
                 ELSE current_round
        signal ==
            IF cooling THEN None
            ELSE IF Val(round).phase = WAITING
            THEN CheckLeg1Opportunity(h, round, up_ask, down_ask, ts)
            ELSE IF Val(round).phase = LEG1_FILLED
            THEN CheckLeg2Opportunity(round, up_ask, down_ask)
            ELSE None
        \* the signal is handed to the handler before it is returned
        raised == IsSome(signal) /\ EmitSignalRaises(on_signal)
    IN  /\ CallerActive
        /\ starts => round_counter < MaxRounds
        /\ price_history' = h
        /\ current_round' = round
        /\ round_counter' = IF starts THEN round_counter + 1 ELSE round_counter
        /\ dip_op' = IF raised THEN Returned("update_prices", FALSE, None)
                     ELSE Returned("update_prices", IsSome(signal), signal)
        /\ UNCHANGED << riskVars, ledgerVars, priceVars, strategyVars >>
        /\ UNCHANGED << now, config, market, last_execution_time,
                        stop_loss_task, merge_tasks, exit_call,
                        markets_rotated, sell_signals, ended >>
        /\ UNCHANGED << dip_stats, on_signal, on_merge, merges >>

\* record_leg1_fill(signal, price, shares)
RecordLeg1Fill(side, price, shares) ==
    /\ CallerActive
    /\ IF ~IsSome(current_round)
       THEN /\ dip_op' = NoResult
            /\ UNCHANGED << current_round, last_execution_time,
                            stop_loss_task >>
       ELSE /\ current_round' = Some(
                [ Val(current_round) EXCEPT
                    !.leg1 = Some(DipArbLeg(side, price, shares)),
                    !.phase = LEG1_FILLED,
                    !.leg1_fill_time = Some(now) ])
            /\ last_execution_time' = now
            /\ stop_loss_task' = IF config.enable_stop_loss
                                 THEN StartStopLossTimer(Val(current_round))
                                 ELSE stop_loss_task
            /\ dip_op' = NoResult
    /\ UNCHANGED << riskVars, ledgerVars, priceVars, strategyVars >>
    /\ UNCHANGED << now, config, market, round_counter, price_history,
                    merge_tasks, exit_call, markets_rotated, sell_signals,
                    ended >>
    /\ UNCHANGED << dip_stats, on_signal, on_merge, merges >>

\* record_leg2_fill(signal, price, shares)
RecordLeg2Fill(side, price, shares) ==
    /\ CallerActive
    /\ IF ~IsSome(current_round) \/ ~IsSome(Val(current_round).leg1)
       THEN /\ dip_op' = NoResult
            /\ UNCHANGED << current_round, last_execution_time,
                            stop_loss_task, merge_tasks, ended >>
       ELSE LET leg1_price == Val(Val(current_round).leg1).price
                done == [ Val(current_round) EXCEPT
                            !.leg2 = Some(DipArbLeg(side, price, shares)),
                            !.phase = COMPLETED,
                            !.total_cost = leg1_price + price,
                            !.profit = 100 - (leg1_price + price) ]
            IN  /\ stop_loss_task' = None
                /\ last_execution_time' = now
                /\ dip_op' = NoResult
                /\ config.auto_merge => merge_tasks < MaxMergeTasks
                /\ IF config.auto_merge
                   THEN /\ current_round' = Some(done)
                        /\ merge_tasks' = merge_tasks + 1
                        /\ UNCHANGED ended
                   ELSE /\ current_round' = None
                        /\ ended' = Dropped(done)
                        /\ UNCHANGED merge_tasks
    /\ UNCHANGED << riskVars, ledgerVars, priceVars, strategyVars >>
    /\ UNCHANGED << now, config, market, round_counter, price_history,
                    exit_call, markets_rotated, sell_signals >>
    /\ UNCHANGED << dip_stats, on_signal, on_merge, merges >>

\* the call _on_merge(condition_id, shares), and the round the shares were
\* taken from
MergeCall(condition_id, shares, round_id) ==
    [ condition_id |-> condition_id, shares |-> shares, round_id |-> round_id ]

\* _execute_merge without its try/except: the exception of the merge handler
\* ends the task before _reset_round
ExecuteMergeUncaught ==
    /\ merge_tasks > 0
    /\ merge_tasks' = merge_tasks - 1
    /\ IF ~IsSome(current_round) \/ ~IsSome(market)
       THEN UNCHANGED << current_round, stop_loss_task, ended, dip_stats,
                         merges >>
       ELSE LET round == Val(current_round)
                shares == IF IsSome(round.leg1) THEN Val(round.leg1).shares
                          ELSE 0
            IN  /\ merges' = IF on_merge = "none" THEN merges
                             ELSE Append(merges, MergeCall(Val(market), shares,
                                                           round.round_id))
                /\ dip_stats' = IF on_merge = "ok"
                            THEN [ dip_stats EXCEPT !.merges_completed = @ + 1 ]
                            ELSE dip_stats
                /\ IF on_merge = "raise"
                   THEN UNCHANGED << current_round, stop_loss_task, ended >>
                   ELSE /\ ended' = Dropped([ round EXCEPT
                                       !.merged = @ \/ on_merge = "ok" ])
                        /\ current_round' = None
                        /\ stop_loss_task' = None
    /\ dip_op' = NoResult
    /\ UNCHANGED << riskVars, ledgerVars, priceVars, strategyVars >>
    /\ UNCHANGED << now, config, market, round_counter, last_execution_time,
                    price_history, exit_call, markets_rotated, sell_signals >>
    /\ UNCHANGED << on_signal, on_merge >>

\* _execute_merge: the task record_leg2_fill created runs.  The merge
\* handler, if one is registered, is called with the condition id of the
\* market and the leg-1 shares of the round that is current now; the round
\* is marked merged and counted only if the handler returns; it is reset
\* either way.
ExecuteMerge ==
    /\ merge_tasks > 0
    /\ merge_tasks' = merge_tasks - 1
    /\ IF ~IsSome(current_round) \/ ~IsSome(market)
       THEN UNCHANGED << current_round, stop_loss_task, ended, dip_stats,
                         merges >>
       ELSE LET round == Val(current_round)
                shares == IF IsSome(round.leg1) THEN Val(round.leg1).shares
                          ELSE 0
            IN  /\ merges' = IF on_merge = "none" THEN merges
                             ELSE Append(merges, MergeCall(Val(market), shares,
                                                           round.round_id))
                /\ dip_stats' = IF on_merge = "ok"
                            THEN [ dip_stats EXCEPT !.merges_completed = @ + 1 ]
                            ELSE dip_stats
                /\ ended' = Dropped([ round EXCEPT
                                        !.merged = @ \/ on_merge = "ok" ])
                /\ current_round' = None
                /\ stop_loss_task' = None
    /\ dip_op' = NoResult
    /\ UNCHANGED << riskVars, ledgerVars, priceVars, strategyVars >>
    /\ UNCHANGED << now, config, market, round_counter, last_execution_time,
                    price_history, exit_call, markets_rotated, sell_signals >>
    /\ UNCHANGED << on_signal, on_merge >>

\* emergency_exit_leg1(sell_fn = None): the sell is requested by a signal
EmergencyExitLeg1 ==
    /\ CallerActive
    /\ IF ~IsSome(current_round) \/ ~IsSome(Val(current_round).leg1)
       THEN /\ dip_op' = Returned("emergency_exit_leg1", FALSE, None)
            /\ UNCHANGED << current_round, stop_loss_task, sell_signals,
                            ended >>
       ELSE LET leg1 == Val(Val(current_round).leg1)
                signal == DipArbSignal("emergency_exit", leg1.side, 0,
                                       leg1.shares,
                                       Val(current_round).round_id, TRUE)
            IN  /\ sell_signals' = Append(sell_signals, signal)
                /\ stop_loss_task' = None
                /\ IF EmitSignalRaises(on_signal)
                   THEN \* caught by "except Exception" of the call itself
                        /\ dip_op' = Returned("emergency_exit_leg1", FALSE,
                                              None)
                        /\ UNCHANGED << current_round, ended >>
                   ELSE /\ ended' = Dropped([ Val(current_round) EXCEPT
                                                !.phase = STOP_LOSS ])
                        /\ current_round' = None
                        /\ dip_op' = Returned("emergency_exit_leg1", TRUE,
                                              None)
    /\ UNCHANGED << riskVars, ledgerVars, priceVars, strategyVars >>
    /\ UNCHANGED << now, config, market, round_counter, last_execution_time,
                    price_history, merge_tasks, exit_call, markets_rotated >>
    /\ UNCHANGED << dip_stats, on_signal, on_merge, merges >>

\* emergency_exit_leg1(sell_fn) up to `await sell_fn(token_id, shares)`
EmergencyExitCall ==
    /\ CallerActive
    /\ ~exit_call
    /\ IF ~IsSome(current_round) \/ ~IsSome(Val(current_round).leg1)
       THEN /\ dip_op' = Returned("emergency_exit_leg1", FALSE, None)
            /\ UNCHANGED << stop_loss_task, exit_call >>
       ELSE /\ stop_loss_task' = None
            /\ exit_call' = TRUE
            /\ dip_op' = Returned("emergency_exit_leg1:await", TRUE, None)
    /\ UNCHANGED << riskVars, ledgerVars, priceVars, strategyVars >>
    /\ UNCHANGED << now, config, current_round, market, round_counter,
                    last_execution_time, price_history, merge_tasks,
                    markets_rotated, sell_signals, ended >>
    /\ UNCHANGED << dip_stats, on_signal, on_merge, merges >>

\* emergency_exit_leg1(sell_fn) from the return of sell_fn on; sell_fn
\* returned true ("ok"), returned false ("failed") or raised ("raise")
EmergencyExitReturn(result) ==
    /\ exit_call
    /\ exit_call' = FALSE
    /\ IF result = "ok" /\ IsSome(current_round)
       THEN /\ ended' = Dropped([ Val(current_round) EXCEPT
                                    !.phase = STOP_LOSS ])
            /\ current_round' = None
            /\ stop_loss_task' = None
            /\ dip_op' = Returned("emergency_exit_leg1:return", TRUE, None)
       ELSE \* sell failed or raised, or setting the phase of no round raised
            /\ dip_op' = Returned("emergency_exit_leg1:return", FALSE, None)
            /\ UNCHANGED << current_round, stop_loss_task, ended >>
    /\ UNCHANGED << riskVars, ledgerVars, priceVars, strategyVars >>
    /\ UNCHANGED << now, config, market, round_counter, last_execution_time,
                    price_history, merge_tasks, markets_rotated,
                    sell_signals >>
    /\ UNCHANGED << dip_stats, on_signal, on_merge, merges >>

\* the stop-loss task is sleeping and its sleep is over
TimerDue ==
    /\ IsSome(stop_loss_task)
    /\ ~Val(stop_loss_task).done
    /\ now >= Val(stop_loss_task).deadline

\* _stop_loss_countdown after the sleep, with _trigger_stop_loss.
\* Tasks run in creation order, so a pending _execute_merge runs first.
StopLossCountdown ==
    /\ TimerDue
    /\ merge_tasks = 0
    /\ IF IsSome(current_round) /\ Val(current_round).phase = LEG1_FILLED
          /\ IsSome(Val(current_round).leg1)
       THEN LET leg1 == Val(Val(current_round).leg1)
                signal == DipArbSignal("stop_loss", leg1.side, 0,
                                       leg1.shares,
                                       Val(current_round).round_id, TRUE)
                stopped == [ Val(current_round) EXCEPT
                               !.phase = STOP_LOSS,
                               !.stop_loss_triggered = TRUE ]
            IN  /\ sell_signals' = Append(sell_signals, signal)
                /\ dip_stats' = [ dip_stats EXCEPT !.rounds_stop_loss = @ + 1 ]
                /\ IF EmitSignalRaises(on_signal)
                   THEN \* the task ends before _reset_round
                        /\ current_round' = Some(stopped)
                        /\ stop_loss_task' = Some([ Val(stop_loss_task) EXCEPT
                                                      !.done = TRUE ])
                        /\ UNCHANGED ended
                   ELSE /\ ended' = Dropped(stopped)
                        /\ current_round' = None
                        /\ stop_loss_task' = None
       ELSE /\ stop_loss_task' = Some([ Val(stop_loss_task) EXCEPT
                                          !.done = TRUE ])
            /\ UNCHANGED << current_round, sell_signals, ended, dip_stats >>
    /\ dip_op' = NoResult
    /\ UNCHANGED << riskVars, ledgerVars, priceVars, strategyVars >>
    /\ UNCHANGED << now, config, market, round_counter, last_execution_time,
                    price_history, merge_tasks, exit_call, markets_rotated >>
    /\ UNCHANGED << on_signal, on_merge, merges >>

\* a second passes; tasks that are ready to run do so first
Tick ==
    /\ now < MaxTime
    /\ merge_tasks = 0
    /\ ~TimerDue
    /\ now' = now + 1
    /\ UNCHANGED << riskVars, ledgerVars, priceVars, strategyVars >>
    /\ UNCHANGED << config, current_round, market, round_counter,
                    last_execution_time, price_history, stop_loss_task,
                    merge_tasks, exit_call, markets_rotated, sell_signals,
                    ended, dip_op >>
    /\ UNCHANGED << dip_stats, on_signal, on_merge, merges >>

\* ------------------------------------------------------------------------
\* risk 2.py: RiskManager.  Money is counted in whole units, profit spread
\* in thousandths, time in seconds, the UTC date as a day number.
\* ------------------------------------------------------------------------
DailyStats(date) ==
    [ date |-> date, total_pnl |-> 0, realized_pnl |-> 0, trades_count |-> 0,
      winning_trades |-> 0, losing_trades |-> 0 ]

\* RiskManager.__init__
RiskManager(p, date) ==
    [ min_profit |-> MIN_PROFIT_SPREAD,
      max_position_size |-> MAX_POSITION_SIZE,
      daily_pnl_limit |-> p.daily_pnl_limit,
      max_open_positions |-> p.max_open_positions,
      max_daily_trades |-> p.max_daily_trades,
      circuit_breaker_cooldown |-> p.circuit_breaker_cooldown,
      market_cooldown_duration |-> p.market_cooldown_duration,
      min_trade_interval |-> p.min_trade_interval,
      daily_pnl |-> 0,
      daily_trades_count |-> 0,
      open_positions_count |-> 0,
      current_date |-> date,
      circuit_breaker_triggered |-> FALSE,
      circuit_breaker_reason |-> None,
      circuit_breaker_time |-> None,
      daily_stats |-> [ d \in Dates |-> None ],
      cooldown_markets |-> [ m \in RiskMarkets |-> None ],
      last_trade_time |-> 0,
      max_drawdown |-> 0,
      peak_pnl |-> 0 ]

\* _reset_circuit_breaker
ResetCircuitBreaker(self) ==
    [ self EXCEPT !.circuit_breaker_triggered = FALSE,
                  !.circuit_breaker_reason = None,
                  !.circuit_breaker_time = None ]

\* _trigger_circuit_breaker(reason) at time t
TriggerCircuitBreaker(self, reason, t) ==
    IF self.circuit_breaker_triggered
    THEN self
    ELSE [ self EXCEPT !.circuit_breaker_triggered = TRUE,
                       !.circuit_breaker_reason = Some(reason),
                       !.circuit_breaker_time = Some(t) ]

\* _check_pnl_limit
CheckPnlLimitUnlatched(self, t) ==
    IF self.daily_pnl <= self.daily_pnl_limit
    THEN TriggerCircuitBreaker(self, "Daily P&L limit breached", t)
    ELSE ResetCircuitBreaker(self)
CheckPnlLimit(self, t) ==
    IF self.daily_pnl <= self.daily_pnl_limit
    THEN TriggerCircuitBreaker(self, "Daily P&L limit breached", t)
    ELSE self

\* _check_circuit_breaker_cooldown: << returned value, self afterwards >>
CheckCircuitBreakerCooldown(self, t) ==
    IF ~self.circuit_breaker_triggered \/ ~IsSome(self.circuit_breaker_time)
    THEN << TRUE, self >>
    ELSE IF t - Val(self.circuit_breaker_time) >= self.circuit_breaker_cooldown
    THEN << TRUE, ResetCircuitBreaker(self) >>
    ELSE << FALSE, self >>

\* _check_day_rollover when _get_today() returns date
CheckDayRolloverKeepingBreaker(self, date) ==
    IF date # self.current_date
    THEN LET old == IF IsSome(self.daily_stats[self.current_date])
                    THEN Val(self.daily_stats[self.current_date])
                    ELSE DailyStats(self.current_date)
             stats == [ old EXCEPT !.total_pnl = self.daily_pnl,
                                   !.trades_count = self.daily_trades_count ]
         IN  [ self EXCEPT
                 !.daily_stats[self.current_date] = Some(stats),
                 !.current_date = date,
                 !.daily_pnl = 0,
                 !.daily_trades_count = 0 ]
    ELSE self
CheckDayRollover(self, date) ==
    IF date # self.current_date
    THEN LET old == IF IsSome(self.daily_stats[self.current_date])
                    THEN Val(self.daily_stats[self.current_date])
                    ELSE DailyStats(self.current_date)
             stats == [ old EXCEPT !.total_pnl = self.daily_pnl,
                                   !.trades_count = self.daily_trades_count ]
             fresh == [ self EXCEPT
                          !.daily_stats[self.current_date] = Some(stats),
                          !.current_date = date,
                          !.daily_pnl = 0,
                          !.daily_trades_count = 0 ]
         IN  IF self.circuit_breaker_triggered
             THEN ResetCircuitBreaker(fresh)
             ELSE fresh
    ELSE self

\* _is_market_in_cooldown: << returned value, self afterwards >>
IsMarketInCooldownPastEnd(self, market_id, t) ==
    IF ~IsSome(self.cooldown_markets[market_id])
    THEN << FALSE, self >>
    ELSE IF t > Val(self.cooldown_markets[market_id])
    THEN << FALSE, [ self EXCEPT !.cooldown_markets[market_id] = None ] >>
    ELSE << TRUE, self >>
IsMarketInCooldown(self, market_id, t) ==
    IF ~IsSome(self.cooldown_markets[market_id])
    THEN << FALSE, self >>
    ELSE IF t >= Val(self.cooldown_markets[market_id])
    THEN << FALSE, [ self EXCEPT !.cooldown_markets[market_id] = None ] >>
    ELSE << TRUE, self >>

\* _apply_market_cooldown
ApplyMarketCooldown(self, market_id, t) ==
    [ self EXCEPT !.cooldown_markets[market_id] =
                      Some(t + self.market_cooldown_duration) ]

\* _cleanup_expired_cooldowns
CleanupExpiredCooldowns(self, t) ==
    [ self EXCEPT !.cooldown_markets =
        [ m \in RiskMarkets |->
            IF IsSome(self.cooldown_markets[m])
               /\ t >= Val(self.cooldown_markets[m])
            THEN None
            ELSE self.cooldown_markets[m] ] ]

\* what check_opportunity returns, the `return False` it left by (0: none)
\* and the manager afterwards
Checked(ok, gate, self) == [ ok |-> ok, gate |-> gate, self |-> self ]

\* check_opportunity, gates 3 to 8
LaterGates(self, opportunity, current_balance, t) ==
    IF t - self.last_trade_time < self.min_trade_interval
    THEN Checked(FALSE, 3, self)
    ELSE IF self.daily_trades_count >= self.max_daily_trades
    THEN Checked(FALSE, 4, self)
    ELSE IF self.open_positions_count >= self.max_open_positions
    THEN Checked(FALSE, 5, self)
    ELSE IF opportunity.potential_profit < self.min_profit
    THEN Checked(FALSE, 6, self)
    ELSE IF opportunity.total_cost * opportunity.max_volume > current_balance
    THEN Checked(FALSE, 7, self)
    ELSE IF opportunity.max_volume <= 0
    THEN Checked(FALSE, 8, self)
    ELSE Checked(TRUE, 0, self)

\* check_opportunity, gate 2 and what follows
MarketGate(self, opportunity, current_balance, t) ==
    LET cooling == IsMarketInCooldown(self, opportunity.market_id, t)
    IN  IF cooling[1]
        THEN Checked(FALSE, 2, cooling[2])
        ELSE LaterGates(cooling[2], opportunity, current_balance, t)

\* check_opportunity, gate 1 and what follows
MarketGateFirst(self, opportunity, current_balance, t) ==
    LET cooling == IsMarketInCooldown(self, opportunity.market_id, t)
        passed == IF cooling[2].circuit_breaker_triggered
                  THEN CheckCircuitBreakerCooldown(cooling[2], t)
                  ELSE << TRUE, cooling[2] >>
    IN  IF cooling[1]
        THEN Checked(FALSE, 2, cooling[2])
        ELSE IF ~passed[1]
        THEN Checked(FALSE, 1, passed[2])
        ELSE LaterGates(passed[2], opportunity, current_balance, t)
BreakerGate(self, opportunity, current_balance, t) ==
    LET passed == IF self.circuit_breaker_triggered
                  THEN CheckCircuitBreakerCooldown(self, t)
                  ELSE << TRUE, self >>
    IN  IF ~passed[1]
        THEN Checked(FALSE, 1, passed[2])
        ELSE MarketGate(passed[2], opportunity, current_balance, t)

\* check_opportunity(opportunity, current_balance) at time t on day date
CheckOpportunityAt(self, opportunity, current_balance, t, date) ==
    BreakerGate(CheckDayRollover(self, date), opportunity, current_balance, t)

\* record_trade, "Update max drawdown tracking"
UpdateDrawdown(self) ==
    LET peak == IF self.daily_pnl > self.peak_pnl
                THEN self.daily_pnl ELSE self.peak_pnl
        current_drawdown == peak - self.daily_pnl
    IN  [ self EXCEPT !.peak_pnl = peak,
                      !.max_drawdown = IF current_drawdown > @
                                       THEN current_drawdown ELSE @ ]

\* record_trade, "Update daily stats"
UpdateDailyStats(self, pnl, is_winner, market_id, t) ==
    LET old == IF IsSome(self.daily_stats[self.current_date])
               THEN Val(self.daily_stats[self.current_date])
               ELSE DailyStats(self.current_date)
        stats == [ old EXCEPT
                     !.trades_count = @ + 1,
                     !.winning_trades = IF is_winner THEN @ + 1 ELSE @,
                     !.losing_trades = IF is_winner THEN @ ELSE @ + 1,
                     !.realized_pnl = @ + pnl ]
        cooled == IF ~is_winner /\ IsSome(market_id)
                  THEN ApplyMarketCooldown(self, Val(market_id), t)
                  ELSE self
    IN  [ cooled EXCEPT !.daily_stats[self.current_date] = Some(stats) ]

\* record_trade(pnl, is_winner, market_id) at time t on day date
RecordTradeAt(self, pnl, is_winner, market_id, t, date) ==
    LET rolled == CheckDayRollover(self, date)
        counted == [ rolled EXCEPT !.daily_pnl = @ + pnl,
                                   !.daily_trades_count = @ + 1,
                                   !.last_trade_time = t ]
    IN  CheckPnlLimit(
            UpdateDailyStats(UpdateDrawdown(counted), pnl, is_winner,
                             market_id, t),
            t)

\* get_risk_metrics: the snapshot (win_rate as << wins, trades >>)
RiskMetrics(self) ==
    LET stats == self.daily_stats[self.current_date]
        total == IF IsSome(stats)
                 THEN Val(stats).winning_trades + Val(stats).losing_trades
                 ELSE 0
    IN  [ daily_pnl |-> self.daily_pnl,
          daily_trades |-> self.daily_trades_count,
          open_positions |-> self.open_positions_count,
          circuit_breaker_active |-> self.circuit_breaker_triggered,
          can_trade |-> /\ ~self.circuit_breaker_triggered
                        /\ self.daily_trades_count < self.max_daily_trades
                        /\ self.open_positions_count < self.max_open_positions,
          win_rate |-> IF total > 0
                       THEN << Val(stats).winning_trades, total >>
                       ELSE << 0, 1 >>,
          max_drawdown |-> self.max_drawdown,
          cooldown_markets |->
              Cardinality({ m \in RiskMarkets :
                              IsSome(self.cooldown_markets[m]) }) ]

RiskReturned(op, ok, gate, about) ==
    [ op |-> op, ok |-> ok, gate |-> gate, about |-> about ]
\* the operation returns nothing
RiskNoResult == RiskReturned("", TRUE, 0, None)

\* check_opportunity(opportunity, current_balance)
CheckOpportunity(opportunity, current_balance) ==
    LET r == CheckOpportunityAt(rm, opportunity, current_balance, risk_clock,
                                today)
    IN  /\ rm' = r.self
        /\ risk_op' = RiskReturned("check_opportunity", r.ok, r.gate,
                                   Some(opportunity.market_id))
        /\ UNCHANGED << risk_clock, today, pnl_log, last_breach, approved >>
        /\ UNCHANGED << dipVars, ledgerVars, priceVars, strategyVars >>

\* record_trade(pnl, is_winner, market_id)
RecordTrade(pnl, is_winner, market_id) ==
    LET before == CheckDayRollover(rm, today).daily_pnl
        after == RecordTradeAt(rm, pnl, is_winner, market_id, risk_clock,
                               today)
    IN  /\ Len(pnl_log) < MaxTrades
        /\ rm' = after
        /\ pnl_log' = Append(pnl_log, pnl)
        /\ last_breach' =
              IF before > rm.daily_pnl_limit
                 /\ after.daily_pnl <= rm.daily_pnl_limit
              THEN Some([ time |-> risk_clock, date |-> today ])
              ELSE last_breach
        /\ risk_op' = RiskNoResult
        /\ UNCHANGED << risk_clock, today, approved >>
        /\ UNCHANGED << dipVars, ledgerVars, priceVars, strategyVars >>

\* update_open_positions(count)
UpdateOpenPositions(count) ==
    /\ rm' = [ rm EXCEPT !.open_positions_count = count ]
    /\ risk_op' = RiskNoResult
    /\ UNCHANGED << risk_clock, today, pnl_log, last_breach, approved >>
    /\ UNCHANGED << dipVars, ledgerVars, priceVars, strategyVars >>

\* force_trigger_circuit_breaker()
ForceTriggerCircuitBreaker ==
    /\ rm' = TriggerCircuitBreaker(rm, "Manual trigger", risk_clock)
    /\ risk_op' = RiskNoResult
    /\ UNCHANGED << risk_clock, today, pnl_log, last_breach, approved >>
    /\ UNCHANGED << dipVars, ledgerVars, priceVars, strategyVars >>

\* get_risk_metrics()
GetRiskMetrics ==
    LET self == CleanupExpiredCooldowns(CheckDayRollover(rm, today),
                                        risk_clock)
    IN  /\ rm' = self
        /\ risk_op' = RiskReturned("get_risk_metrics", TRUE, 0,
                                   Some(RiskMetrics(self)))
        /\ UNCHANGED << risk_clock, today, pnl_log, last_breach, approved >>
        /\ UNCHANGED << dipVars, ledgerVars, priceVars, strategyVars >>

\* get_cooldown_markets: the dict returned by a manager already cleaned
\* up, the remaining seconds of every market listed (None: not listed)
RemainingCooldowns(self, t) ==
    [ m \in RiskMarkets |->
        IF IsSome(self.cooldown_markets[m])
        THEN Some(IF Val(self.cooldown_markets[m]) - t > 0
                  THEN Val(self.cooldown_markets[m]) - t ELSE 0)
        ELSE None ]

\* get_cooldown_markets()
GetCooldownMarkets ==
    /\ rm' = CleanupExpiredCooldowns(rm, risk_clock)
    /\ risk_op' =
          RiskReturned("get_cooldown_markets", TRUE, 0,
                       Some(RemainingCooldowns(
                               CleanupExpiredCooldowns(rm, risk_clock),
                               risk_clock)))
    /\ UNCHANGED << risk_clock, today, pnl_log, last_breach, approved >>
    /\ UNCHANGED << dipVars, ledgerVars, priceVars, strategyVars >>

\* a second passes
RiskTick ==
    /\ risk_clock < StartTime + RiskWindow
    /\ risk_clock' = risk_clock + 1
    /\ UNCHANGED << rm, today, pnl_log, last_breach, risk_op,
                    approved >>
    /\ UNCHANGED << dipVars, ledgerVars, priceVars, strategyVars >>

\* the UTC date changes
Midnight ==
    /\ today < MaxDays
    /\ today' = today + 1
    /\ UNCHANGED << rm, risk_clock, pnl_log, last_breach, risk_op,
                    approved >>
    /\ UNCHANGED << dipVars, ledgerVars, priceVars, strategyVars >>

\* the evaluation of market m calls check_opportunity for its trade and
\* keeps the answer
ApproveTrade(m) ==
    LET opportunity == [ market_id |-> m, potential_profit |-> 5,
                         total_cost |-> 1, max_volume |-> 2 ]
        r == CheckOpportunityAt(rm, opportunity, 2, risk_clock, today)
    IN  /\ m \notin approved
        /\ rm' = r.self
        /\ risk_op' = RiskReturned("check_opportunity", r.ok, r.gate,
                                   Some(m))
        /\ approved' = IF r.ok THEN approved \cup { m } ELSE approved
        /\ UNCHANGED << risk_clock, today, pnl_log, last_breach >>
        /\ UNCHANGED << dipVars, ledgerVars, priceVars, strategyVars >>

\* the evaluation of market m, its trade approved and executed, calls
\* record_trade(0.0, True)
RecordApprovedTrade(m) ==
    /\ m \in approved
    /\ rm' = RecordTradeAt(rm, 0, TRUE, None, risk_clock, today)
    /\ pnl_log' = Append(pnl_log, 0)
    /\ risk_op' = RiskNoResult
    /\ approved' = approved \ { m }
    /\ UNCHANGED << risk_clock, today, last_breach >>
    /\ UNCHANGED << dipVars, ledgerVars, priceVars, strategyVars >>

\* ------------------------------------------------------------------------
\* position_manager.py: PositionManager.  Prices given by callers are whole
\* cents; an averaged entry price is the exact fraction << cents, divisor >>
\* in lowest terms.  `positions` lists the dict's values in insertion order.
\* ------------------------------------------------------------------------
RECURSIVE GCD(_, _)
GCD(a, b) == IF b = 0 THEN a ELSE GCD(b, a % b)

Abs(n) == IF n < 0 THEN -n ELSE n

\* the number n / d
Frac(n, d) ==
    LET g == GCD(Abs(n), d)
    IN  IF n = 0 THEN << 0, 1 >> ELSE << n \div g, d \div g >>

\* Position(...) as add_position builds it
Position(market_id, token_id, entry_price, size) ==
    [ market_id |-> market_id, token_id |-> token_id,
      entry_price |-> Frac(entry_price, 1), size |-> size,
      current_price |-> entry_price, highest_price |-> entry_price,
      lowest_price |-> entry_price, closed |-> FALSE, exit_price |-> None ]

\* Trade(...)
Trade(side, price, size, market_id, token_id) ==
    [ side |-> side, price |-> price, size |-> size,
      market_id |-> market_id, token_id |-> token_id ]

\* `key in self.positions`: the index of the key's position, 0 if absent
KeyIndex(ps, market_id, token_id) ==
    LET at == { i \in 1..Len(ps) : /\ ps[i].market_id = market_id
                                   /\ ps[i].token_id = token_id }
    IN  IF at = {} THEN 0 ELSE CHOOSE i \in at : TRUE

\* `del self.positions[key]`
Without(ps, i) == SubSeq(ps, 1, i - 1) \o SubSeq(ps, i + 1, Len(ps))

\* add_position, "Weighted average entry price"
UnweightedPrice(existing_price, existing_size, entry_price, size) ==
    Frac(existing_price[1] + entry_price * existing_price[2],
         2 * existing_price[2])
AveragePrice(existing_price, existing_size, entry_price, size) ==
    Frac(existing_price[1] * existing_size
            + entry_price * size * existing_price[2],
         existing_price[2] * (existing_size + size))

\* Position.update_price(price)
UpdatePrice(p, price) ==
    [ p EXCEPT !.current_price = price,
               !.highest_price = IF price > @ THEN price ELSE @,
               !.lowest_price = IF @ = 0 \/ price < @ THEN price ELSE @ ]

\* Position.unrealized_pnl and Position.realized_pnl, as exact fractions
unrealized_pnl(p) ==
    LET current_value ==
            IF p.current_price > 0
            THEN Frac(p.size * p.current_price, 1)
            ELSE Frac(p.size * p.entry_price[1], p.entry_price[2])
        invested == Frac(p.size * p.entry_price[1], p.entry_price[2])
    IN  IF p.closed
        THEN Frac(0, 1)
        ELSE Frac(current_value[1] * invested[2]
                     - invested[1] * current_value[2],
                  current_value[2] * invested[2])

realized_pnl(p) ==
    IF ~p.closed \/ p.exit_price = None
    THEN Frac(0, 1)
    ELSE Frac(( Val(p.exit_price) * p.entry_price[2] - p.entry_price[1] )
                 * p.size,
              p.entry_price[2])

\* close_position on a ledger << positions, closed_positions, trades >>;
\* size is None when no size is given
ClosePositionInKeepingEmpty(ledger, market_id, token_id, exit_price, size) ==
    LET ps == ledger[1]
        i == KeyIndex(ps, market_id, token_id)
        position == ps[i]
        close_size == IF IsSome(size) /\ Val(size) # 0
                      THEN Val(size) ELSE position.size
        sold == Append(ledger[3],
                       Trade("SELL", exit_price, close_size, market_id,
                             token_id))
    IN  IF i = 0
        THEN ledger
        ELSE IF close_size > position.size
        THEN << Without(ps, i),
                Append(ledger[2],
                       [ position EXCEPT !.closed = TRUE,
                                         !.exit_price = Some(exit_price) ]),
                sold >>
        ELSE << [ ps EXCEPT ![i].size = @ - close_size ],
                Append(ledger[2],
                       [ position EXCEPT !.size = close_size,
                                         !.current_price = 0,
                                         !.highest_price = 0,
                                         !.lowest_price = 0,
                                         !.closed = TRUE,
                                         !.exit_price = Some(exit_price) ]),
                sold >>
ClosePositionIn(ledger, market_id, token_id, exit_price, size) ==
    LET ps == ledger[1]
        i == KeyIndex(ps, market_id, token_id)
        position == ps[i]
        close_size == IF IsSome(size) /\ Val(size) # 0
                      THEN Val(size) ELSE position.size
        sold == Append(ledger[3],
                       Trade("SELL", exit_price, close_size, market_id,
                             token_id))
    IN  IF i = 0
        THEN ledger
        ELSE IF close_size >= position.size
        THEN << Without(ps, i),
                Append(ledger[2],
                       [ position EXCEPT !.closed = TRUE,
                                         !.exit_price = Some(exit_price) ]),
                sold >>
        ELSE << [ ps EXCEPT ![i].size = @ - close_size ],
                Append(ledger[2],
                       [ position EXCEPT !.size = close_size,
                                         !.current_price = 0,
                                         !.highest_price = 0,
                                         !.lowest_price = 0,
                                         !.closed = TRUE,
                                         !.exit_price = Some(exit_price) ]),
                sold >>

\* force_close_all: the keys listed at the start are closed in order
RECURSIVE ForceCloseEach(_, _, _)
ForceCloseEach(ledger, keys, price) ==
    IF keys = << >>
    THEN ledger
    ELSE LET k == Head(keys)
             i == KeyIndex(ledger[1], k.market_id, k.token_id)
             at == IF IsSome(price) THEN Val(price)
                   ELSE ledger[1][i].current_price
         IN  ForceCloseEach(
                 ClosePositionIn(ledger, k.market_id, k.token_id, at, None),
                 Tail(keys), price)

LedgerReturned(op, found) == [ op |-> op, found |-> found ]

\* add_position(market_id, token_id, outcome, entry_price, size)
AddPosition(market_id, token_id, entry_price, size) ==
    LET i == KeyIndex(positions, market_id, token_id)
        existing == positions[i]
    IN  /\ ledger_calls < MaxLedgerCalls
        /\ ledger_calls' = ledger_calls + 1
        /\ IF i # 0
           THEN /\ positions' =
                      [ positions EXCEPT
                          ![i].entry_price =
                              AveragePrice(existing.entry_price,
                                           existing.size, entry_price, size),
                          ![i].size = existing.size + size ]
                /\ UNCHANGED trades
           ELSE /\ positions' =
                      Append(positions,
                             Position(market_id, token_id, entry_price, size))
                /\ trades' =
                      Append(trades,
                             Trade("BUY", entry_price, size, market_id,
                                   token_id))
        /\ ledger_op' = LedgerReturned("add_position", i # 0)
        /\ UNCHANGED closed_positions
        /\ UNCHANGED << dipVars, riskVars, priceVars, strategyVars >>

\* close_position(market_id, token_id, exit_price, size)
ClosePosition(market_id, token_id, exit_price, size) ==
    LET after == ClosePositionIn(<< positions, closed_positions, trades >>,
                                 market_id, token_id, exit_price, size)
    IN  /\ ledger_calls < MaxLedgerCalls
        /\ ledger_calls' = ledger_calls + 1
        /\ positions' = after[1]
        /\ closed_positions' = after[2]
        /\ trades' = after[3]
        /\ ledger_op' =
              LedgerReturned("close_position",
                             KeyIndex(positions, market_id, token_id) # 0)
        /\ UNCHANGED << dipVars, riskVars, priceVars, strategyVars >>

\* update_position_prices(market_id, token_id, price)
UpdatePositionPrices(market_id, token_id, price) ==
    LET i == KeyIndex(positions, market_id, token_id)
    IN  /\ ledger_calls < MaxLedgerCalls
        /\ ledger_calls' = ledger_calls + 1
        /\ positions' = IF i = 0 THEN positions
                        ELSE [ positions EXCEPT
                                 ![i] = UpdatePrice(positions[i], price) ]
        /\ ledger_op' = LedgerReturned("update_position_prices", i # 0)
        /\ UNCHANGED << closed_positions, trades >>
        /\ UNCHANGED << dipVars, riskVars, priceVars, strategyVars >>

\* force_close_all(get_price_func); get_price_func is absent or returns
\* Val(price) for every token
ForceCloseAll(price) ==
    LET after == ForceCloseEach(<< positions, closed_positions, trades >>,
                                positions, price)
    IN  /\ ledger_calls < MaxLedgerCalls
        /\ ledger_calls' = ledger_calls + 1
        /\ positions' = after[1]
        /\ closed_positions' = after[2]
        /\ trades' = after[3]
        /\ ledger_op' = LedgerReturned("force_close_all", positions # << >>)
        /\ UNCHANGED << dipVars, riskVars, priceVars, strategyVars >>

\* ------------------------------------------------------------------------
\* risk 2.py: RiskManager.calculate_safe_size.  total_cost is in thousandths
\* of a dollar, max_position_size and the balance in dollars; the size
\* returned is an exact fraction.
\* ------------------------------------------------------------------------
calculate_safe_size_without_buffer(self, opportunity, current_balance) ==
    LET FracMin(a, b) == IF a[1] * b[2] <= b[1] * a[2] THEN a ELSE b
        max_units_by_capital ==
            Frac(self.max_position_size * 1000, opportunity.total_cost)
        by_capital ==
            IF opportunity.total_cost > 0
            THEN FracMin(Frac(opportunity.max_volume, 1),
                         max_units_by_capital)
            ELSE Frac(opportunity.max_volume, 1)
        max_units_by_balance ==
            IF opportunity.total_cost > 0
            THEN Frac(current_balance * 1000, opportunity.total_cost)
            ELSE Frac(0, 1)
    IN  FracMin(by_capital, max_units_by_balance)
calculate_safe_size(self, opportunity, current_balance) ==
    LET FracMin(a, b) == IF a[1] * b[2] <= b[1] * a[2] THEN a ELSE b
        max_units_by_capital ==
            Frac(self.max_position_size * 1000, opportunity.total_cost)
        by_capital ==
            IF opportunity.total_cost > 0
            THEN FracMin(Frac(opportunity.max_volume, 1),
                         max_units_by_capital)
            ELSE Frac(opportunity.max_volume, 1)
        max_units_by_balance ==
            IF opportunity.total_cost > 0
            THEN Frac(current_balance * 950, opportunity.total_cost)
            ELSE Frac(0, 1)
    IN  FracMin(by_capital, max_units_by_balance)

\* a call of calculate_safe_size on a RiskManager not used before
CalculateSafeSize(opportunity, current_balance) ==
    /\ risk_op = RiskNoResult
    /\ risk_op' =
          RiskReturned("calculate_safe_size", TRUE, 0,
                       Some(<< opportunity, current_balance,
                               calculate_safe_size(rm, opportunity,
                                                   current_balance) >>))
    /\ UNCHANGED << rm, risk_clock, today, pnl_log, last_breach, approved >>
    /\ UNCHANGED << dipVars, ledgerVars, priceVars, strategyVars >>

\* ------------------------------------------------------------------------
\* price_utils.py.  Prices and profits are in thousandths (1.0 is 1000).
\* ------------------------------------------------------------------------
Min(a, b) == IF a <= b THEN a ELSE b
Max(a, b) == IF a >= b THEN a ELSE b

EffectivePrices(buy_yes, buy_no, sell_yes, sell_no) ==
    [ effective_buy_yes |-> buy_yes, effective_buy_no |-> buy_no,
      effective_sell_yes |-> sell_yes, effective_sell_no |-> sell_no ]

\* EffectivePrices properties
long_cost(eff) == eff.effective_buy_yes + eff.effective_buy_no
short_revenue(eff) == eff.effective_sell_yes + eff.effective_sell_no
long_profit(eff) == 1000 - long_cost(eff)
short_profit(eff) == short_revenue(eff) - 1000

ArbitrageInfo(type, profit, cost_or_revenue, eff) ==
    [ type |-> type, profit |-> profit, cost_or_revenue |-> cost_or_revenue,
      effective_prices |-> eff ]

\* get_effective_prices(yes_ask, yes_bid, no_ask, no_bid)
get_direct_prices(yes_ask, yes_bid, no_ask, no_bid) ==
    EffectivePrices(yes_ask, no_ask, yes_bid, no_bid)
get_effective_prices(yes_ask, yes_bid, no_ask, no_bid) ==
    EffectivePrices(
        IF no_bid > 0 THEN Min(yes_ask, 1000 - no_bid) ELSE yes_ask,
        IF yes_bid > 0 THEN Min(no_ask, 1000 - yes_bid) ELSE no_ask,
        IF no_ask < 1000 THEN Max(yes_bid, 1000 - no_ask) ELSE yes_bid,
        IF yes_ask < 1000 THEN Max(no_bid, 1000 - yes_ask) ELSE no_bid)

\* check_arbitrage(yes_ask, yes_bid, no_ask, no_bid, threshold)
check_arbitrage_below_threshold(yes_ask, yes_bid, no_ask, no_bid, threshold) ==
    LET eff == get_effective_prices(yes_ask, yes_bid, no_ask, no_bid)
    IN  IF long_profit(eff) < threshold
        THEN Some(ArbitrageInfo("long", long_profit(eff), long_cost(eff),
                                eff))
        ELSE IF short_profit(eff) < threshold
        THEN Some(ArbitrageInfo("short", short_profit(eff),
                                short_revenue(eff), eff))
        ELSE None
check_arbitrage_short_first(yes_ask, yes_bid, no_ask, no_bid, threshold) ==
    LET eff == get_effective_prices(yes_ask, yes_bid, no_ask, no_bid)
    IN  IF short_profit(eff) > threshold
        THEN Some(ArbitrageInfo("short", short_profit(eff),
                                short_revenue(eff), eff))
        ELSE IF long_profit(eff) > threshold
        THEN Some(ArbitrageInfo("long", long_profit(eff), long_cost(eff),
                                eff))
        ELSE None
check_arbitrage(yes_ask, yes_bid, no_ask, no_bid, threshold) ==
    LET eff == get_effective_prices(yes_ask, yes_bid, no_ask, no_bid)
    IN  IF long_profit(eff) > threshold
        THEN Some(ArbitrageInfo("long", long_profit(eff), long_cost(eff),
                                eff))
        ELSE IF short_profit(eff) > threshold
        THEN Some(ArbitrageInfo("short", short_profit(eff),
                                short_revenue(eff), eff))
        ELSE None

PriceReturned(op, args, result) ==
    [ op |-> op, args |-> args, result |-> result, earlier |-> None ]

\* a quote on which no function was called yet
Quoted(yes_ask, yes_bid, no_ask, no_bid) ==
    PriceReturned("", << yes_ask, yes_bid, no_ask, no_bid >>, None)

\* a call of get_effective_prices on the quote
GetEffectivePrices(yes_ask, yes_bid, no_ask, no_bid) ==
    /\ price_op = Quoted(yes_ask, yes_bid, no_ask, no_bid)
    /\ price_op' =
          PriceReturned("get_effective_prices",
                        << yes_ask, yes_bid, no_ask, no_bid >>,
                        Some(get_effective_prices(yes_ask, yes_bid, no_ask,
                                                  no_bid)))
    /\ UNCHANGED << dipVars, riskVars, ledgerVars, strategyVars >>

\* a call of check_arbitrage on the quote
CheckArbitrage(yes_ask, yes_bid, no_ask, no_bid, threshold) ==
    /\ price_op = Quoted(yes_ask, yes_bid, no_ask, no_bid)
    /\ price_op' =
          PriceReturned("check_arbitrage",
                        << yes_ask, yes_bid, no_ask, no_bid, threshold >>,
                        check_arbitrage(yes_ask, yes_bid, no_ask, no_bid,
                                        threshold))
    /\ UNCHANGED << dipVars, riskVars, ledgerVars, strategyVars >>

\* a second call of check_arbitrage on the same quote, with another
\* threshold; the threshold and the result of the first call are kept
CheckArbitrageAgain(threshold) ==
    /\ price_op.op = "check_arbitrage"
    /\ price_op.earlier = None
    /\ threshold # price_op.args[5]
    /\ price_op' =
          [ PriceReturned("check_arbitrage",
                          << price_op.args[1], price_op.args[2],
                             price_op.args[3], price_op.args[4], threshold >>,
                          check_arbitrage(price_op.args[1], price_op.args[2],
                                          price_op.args[3], price_op.args[4],
                                          threshold))
            EXCEPT !.earlier = Some(<< price_op.args[5], price_op.result >>) ]
    /\ UNCHANGED << dipVars, riskVars, ledgerVars, strategyVars >>

\* no quote
PriceInit == price_op = PriceReturned("", << >>, None)

\* ------------------------------------------------------------------------
\* strategy.py.  Prices are in thousandths, profits in millionths.
\* ------------------------------------------------------------------------
\* an OrderbookSnapshot as MarketDataFetcher.get_orderbook builds it
OrderbookSnapshot(asset_id, bids, asks) ==
    [ asset_id |-> asset_id, bids |-> bids, asks |-> asks,
      best_bid |-> IF bids # << >> THEN bids[1].price ELSE 0,
      best_ask |-> IF asks # << >> THEN asks[1].price ELSE 0 ]

\* the orderbook lists of up to Len(Tokens) outcomes
OrderbookLists ==
    UNION { { [ i \in 1..n |-> OrderbookSnapshot(Tokens[i], b[i], a[i]) ] :
                b \in [ 1..n -> BidSides ], a \in [ 1..n -> AskSides ] } :
            n \in 0..Len(Tokens) }

\* sum(...) and min(...) of a list
RECURSIVE SumOf(_)
SumOf(list) ==
    IF list = << >> THEN 0 ELSE list[1] + SumOf(Tail(list))

RECURSIVE MinOf(_)
MinOf(list) ==
    IF Len(list) = 1 THEN list[1] ELSE Min(list[1], MinOf(Tail(list)))

\* ArbitrageStrategy.detect_arbitrage(market_id, orderbooks); the timestamp
\* of the opportunity is left out
detect_arbitrage_above_min_profit(min_profit, market_id, orderbooks) ==
    IF orderbooks = << >>
    THEN None
    ELSE IF \E i \in DOMAIN orderbooks : orderbooks[i].asks = << >>
    THEN None
    ELSE LET best_asks ==
                 [ i \in DOMAIN orderbooks |-> orderbooks[i].best_ask ]
             total_cost == SumOf(best_asks)
             potential_profit == 1000000 - total_cost * (1000 + FEE_RATE)
         IN  IF potential_profit > min_profit
             THEN Some([ market_id |-> market_id,
                         outcomes |-> [ i \in DOMAIN orderbooks |->
                                          orderbooks[i].asset_id ],
                         prices |-> best_asks,
                         total_cost |-> total_cost,
                         potential_profit |-> potential_profit,
                         max_volume |->
                            MinOf([ i \in DOMAIN orderbooks |->
                                      orderbooks[i].asks[1].size ]) ])
             ELSE None
detect_arbitrage(min_profit, market_id, orderbooks) ==
    IF orderbooks = << >>
    THEN None
    ELSE IF \E i \in DOMAIN orderbooks : orderbooks[i].asks = << >>
    THEN None
    ELSE LET best_asks ==
                 [ i \in DOMAIN orderbooks |-> orderbooks[i].best_ask ]
             total_cost == SumOf(best_asks)
             total_cost_with_fee == total_cost * (1000 + FEE_RATE)
             potential_profit == 1000000 - total_cost_with_fee
         IN  IF potential_profit >= min_profit
             THEN Some([ market_id |-> market_id,
                         outcomes |-> [ i \in DOMAIN orderbooks |->
                                          orderbooks[i].asset_id ],
                         prices |-> best_asks,
                         total_cost |-> total_cost,
                         potential_profit |-> potential_profit,
                         max_volume |->
                            MinOf([ i \in DOMAIN orderbooks |->
                                      orderbooks[i].asks[1].size ]) ])
             ELSE None

\* a SpreadOpportunity; its timestamp is left out
SpreadOpportunity(market_id, ob, side, profit, max_volume, opposite_bid) ==
    [ market_id |-> market_id, token_id |-> ob.asset_id, side |-> side,
      entry_price |-> ob.best_ask, expected_profit |-> profit,
      confidence |-> Min(profit * 10, 900000), max_volume |-> max_volume,
      opposite_bid |-> opposite_bid ]

\* ArbitrageStrategy.detect_spread_opportunity(market_id, orderbooks)
detect_spread_opportunity_no_first(min_profit, market_id, orderbooks) ==
    IF Len(orderbooks) # 2
    THEN None
    ELSE LET yes_ob == orderbooks[1]
             no_ob == orderbooks[2]
             yes_profit ==
                 ( 1000 - no_ob.best_bid - FEE_RATE - yes_ob.best_ask ) * 1000
             no_profit ==
                 ( 1000 - yes_ob.best_bid - FEE_RATE - no_ob.best_ask ) * 1000
         IN  IF yes_ob.asks = << >> \/ no_ob.asks = << >>
             THEN None
             ELSE IF yes_ob.bids = << >> \/ no_ob.bids = << >>
             THEN None
             ELSE IF no_profit > min_profit
             THEN Some(SpreadOpportunity(
                          market_id, no_ob, "NO", no_profit,
                          Min(no_ob.asks[1].size, yes_ob.bids[1].size),
                          yes_ob.best_bid))
             ELSE IF yes_profit > min_profit
             THEN Some(SpreadOpportunity(
                          market_id, yes_ob, "YES", yes_profit,
                          Min(yes_ob.asks[1].size, no_ob.bids[1].size),
                          no_ob.best_bid))
             ELSE None
detect_spread_opportunity(min_profit, market_id, orderbooks) ==
    IF Len(orderbooks) # 2
    THEN None
    ELSE LET yes_ob == orderbooks[1]
             no_ob == orderbooks[2]
             yes_arb_price == 1000 - no_ob.best_bid - FEE_RATE
             yes_profit == ( yes_arb_price - yes_ob.best_ask ) * 1000
             no_arb_price == 1000 - yes_ob.best_bid - FEE_RATE
             no_profit == ( no_arb_price - no_ob.best_ask ) * 1000
         IN  IF yes_ob.asks = << >> \/ no_ob.asks = << >>
             THEN None
             ELSE IF yes_ob.bids = << >> \/ no_ob.bids = << >>
             THEN None
             ELSE IF yes_profit > min_profit
             THEN Some(SpreadOpportunity(
                          market_id, yes_ob, "YES", yes_profit,
                          Min(yes_ob.asks[1].size, no_ob.bids[1].size),
                          no_ob.best_bid))
             ELSE IF no_profit > min_profit
             THEN Some(SpreadOpportunity(
                          market_id, no_ob, "NO", no_profit,
                          Min(no_ob.asks[1].size, yes_ob.bids[1].size),
                          yes_ob.best_bid))
             ELSE None

StrategyReturned(op, min_profit, orderbooks, result) ==
    [ op |-> op, min_profit |-> min_profit, orderbooks |-> orderbooks,
      result |-> result ]

\* a call of detect_arbitrage on the orderbooks
DetectArbitrage(market_id) ==
    /\ strategy_op.op = ""
    /\ strategy_op' =
          [ strategy_op EXCEPT
              !.op = "detect_arbitrage",
              !.result = detect_arbitrage(strategy_op.min_profit, market_id,
                                          strategy_op.orderbooks) ]
    /\ UNCHANGED << dipVars, riskVars, ledgerVars, priceVars >>

\* a call of detect_spread_opportunity on the orderbooks
DetectSpreadOpportunity(market_id) ==
    /\ strategy_op.op = ""
    /\ strategy_op' =
          [ strategy_op EXCEPT
              !.op = "detect_spread_opportunity",
              !.result = detect_spread_opportunity(strategy_op.min_profit,
                                                   market_id,
                                                   strategy_op.orderbooks) ]
    /\ UNCHANGED << dipVars, riskVars, ledgerVars, priceVars >>

\* ------------------------------------------------------------------------
\* main.py: PolymarketArbBot.  Money is counted in thousandths of a dollar:
\* the `potential_profit=0.01` of the mock opportunity is 10 and the
\* `current_balance = 100.0` is 100000.  A bot is the RiskManager, the ledger
\* of the strategy and what their last calls returned.
\* ------------------------------------------------------------------------

\* _execute_arb_signal(signal, strategy_name) for an ENTRY signal, at time t
\* on day date; on_order_fill adds the position to the ledger
ExecuteArbSignal(bot, signal, paper_trading, t, date) ==
    LET opp == [ market_id |-> signal.market_id, potential_profit |-> 10,
                 total_cost |-> signal.price, max_volume |-> signal.size ]
        r == CheckOpportunityAt(bot.rm, opp, 100000, t, date)
        i == KeyIndex(bot.positions, signal.market_id, signal.token_id)
        filled ==
            [ bot EXCEPT
                !.rm = r.self,
                !.risk_op = RiskReturned("check_opportunity", TRUE, 0,
                                         Some(signal.market_id)),
                !.positions =
                    IF i # 0
                    THEN [ @ EXCEPT
                             ![i].entry_price =
                                 AveragePrice(@, bot.positions[i].size,
                                              signal.price, signal.size),
                             ![i].size = @ + signal.size ]
                    ELSE Append(@, Position(signal.market_id, signal.token_id,
                                            signal.price, signal.size)),
                !.trades =
                    IF i # 0 THEN @
                    ELSE Append(@, Trade("BUY", signal.price, signal.size,
                                         signal.market_id, signal.token_id)),
                !.ledger_op = LedgerReturned("add_position", i # 0),
                !.ledger_calls = @ + 1 ]
    IN  IF ~r.ok
        THEN [ bot EXCEPT
                 !.rm = r.self,
                 !.risk_op = RiskReturned("check_opportunity", FALSE, r.gate,
                                          Some(signal.market_id)) ]
        ELSE IF paper_trading
        THEN filled
        ELSE [ filled EXCEPT
                 !.rm = RecordTradeAt(@, 0, TRUE, None, t, date),
                 !.risk_op = RiskNoResult,
                 !.pnl_log = Append(@, 0) ]

\* _process_signals(signals, "Arbitrage")
RECURSIVE ProcessSignals(_, _, _, _, _)
ProcessSignals(bot, signals, paper_trading, t, date) ==
    IF signals = << >>
    THEN bot
    ELSE ProcessSignals(
             ExecuteArbSignal(bot, Head(signals), paper_trading, t, date),
             Tail(signals), paper_trading, t, date)

\* process_market(market) with the orderbooks fetched for a market in which
\* the strategy holds no position: update_open_positions, evaluate (the
\* ENTRY signals of _create_entry_signals, or the one of the spread
\* detector) and _process_signals
ProcessMarket(market_id, orderbooks, paper_trading) ==
    LET opportunity == detect_arbitrage(strategy_op.min_profit, market_id,
                                        orderbooks)
        spread_opp == detect_spread_opportunity(strategy_op.min_profit,
                                                market_id, orderbooks)
        signals ==
            IF IsSome(opportunity)
            THEN [ k \in DOMAIN Val(opportunity).outcomes |->
                     [ market_id |-> market_id,
                       token_id |-> Val(opportunity).outcomes[k],
                       size |-> Val(opportunity).max_volume,
                       price |-> Val(opportunity).prices[k] ] ]
            ELSE IF IsSome(spread_opp)
            THEN << [ market_id |-> market_id,
                      token_id |-> Val(spread_opp).token_id,
                      size |-> Val(spread_opp).max_volume,
                      price |-> Val(spread_opp).entry_price ] >>
            ELSE << >>
        bot == [ rm |-> [ rm EXCEPT !.open_positions_count = Len(positions) ],
                 risk_op |-> RiskNoResult, pnl_log |-> pnl_log,
                 positions |-> positions, trades |-> trades,
                 ledger_op |-> ledger_op, ledger_calls |-> ledger_calls ]
        after == ProcessSignals(bot, signals, paper_trading, risk_clock,
                                today)
    IN  /\ orderbooks # << >>
        /\ \A k \in DOMAIN positions : positions[k].market_id # market_id
        /\ ledger_calls + Len(signals) <= MaxLedgerCalls
        /\ rm' = after.rm
        /\ risk_op' = after.risk_op
        /\ pnl_log' = after.pnl_log
        /\ positions' = after.positions
        /\ trades' = after.trades
        /\ ledger_op' = after.ledger_op
        /\ ledger_calls' = after.ledger_calls
        /\ strategy_op' = StrategyReturned("evaluate", strategy_op.min_profit,
                                           orderbooks, Some(signals))
        /\ UNCHANGED << risk_clock, today, last_breach, approved,
                        closed_positions >>
        /\ UNCHANGED << dipVars, priceVars >>

\* ArbitrageStrategy.__init__, and no orderbooks
StrategyInit ==
    strategy_op = StrategyReturned("", MIN_PROFIT_SPREAD * 1000, << >>, None)

\* DipArbService.__init__: the state
DipInitState ==
    /\ now = StartTime
    /\ config \in Configs
    /\ current_round = None
    /\ market = None
    /\ round_counter = 0
    /\ last_execution_time = 0
    /\ price_history = << >>
    /\ stop_loss_task = None
    /\ merge_tasks = 0
    /\ exit_call = FALSE
    /\ markets_rotated = 0
    /\ sell_signals = << >>
    /\ ended = None
    /\ dip_op = NoResult
    /\ dip_stats = [ merges_completed |-> 0, rounds_stop_loss |-> 0 ]
    /\ merges = << >>

\* DipArbService.__init__: the state and the callbacks, none registered
DipInit ==
    /\ DipInitState
    /\ on_signal = "none"
    /\ on_merge = "none"

\* RiskManager.__init__
RiskInit ==
    /\ rm \in { RiskManager(p, 0) : p \in RiskParams }
    /\ risk_clock = StartTime
    /\ today = 0
    /\ pnl_log = << >>
    /\ last_breach = None
    /\ risk_op = RiskNoResult
    /\ approved = { }

\* PositionManager.__init__
LedgerInit ==
    /\ positions = << >>
    /\ closed_positions = << >>
    /\ trades = << >>
    /\ ledger_calls = 0
    /\ ledger_op = LedgerReturned("__init__", FALSE)

\* the round engine, with the stop-loss timer and the merge switched on as
\* they are by default
Init ==
    /\ DipInit
    /\ RiskInit
    /\ LedgerInit
    /\ PriceInit
    /\ StrategyInit
    /\ config.enable_stop_loss
    /\ config.auto_merge

Next ==
    \/ \E m \in Markets : SetMarket(m)
    \/ \E m \in Markets : RotateToNextMarket(m)
    \/ \E q \in Quotes, ts \in Timestamps(now) :
          UpdatePrices(q[1], q[2], 0, 0, ts)
    \/ \E f \in Leg1Fills : RecordLeg1Fill(f[1], f[2], f[3])
    \/ \E f \in Leg2Fills : RecordLeg2Fill(f[1], f[2], f[3])
    \/ ExecuteMerge
    \/ EmergencyExitLeg1
    \/ EmergencyExitCall
    \/ \E result \in { "ok", "failed", "raise" } : EmergencyExitReturn(result)
    \/ StopLossCountdown
    \/ Tick

Spec == Init /\ [][Next]_vars

\* the round engine of one market with its collaborators: on_signal(handler)
\* and on_merge(handler) were called after the construction, with handlers
\* that both return or both raise
InitHandlers ==
    /\ DipInitState
    /\ RiskInit
    /\ LedgerInit
    /\ PriceInit
    /\ StrategyInit
    /\ config.enable_stop_loss
    /\ config.auto_merge
    /\ on_signal \in { "ok", "raise" }
    /\ on_merge = on_signal

NextHandlers ==
    \/ \E m \in Markets : SetMarket(m)
    \/ \E q \in Quotes : UpdatePrices(q[1], q[2], 0, 0, 0)
    \/ RecordLeg1Fill("UP", 45, 20)
    \/ \E f \in Leg2Fills : RecordLeg2Fill(f[1], f[2], f[3])
    \/ ExecuteMerge
    \/ EmergencyExitLeg1
    \/ EmergencyExitCall
    \/ \E result \in { "ok", "failed" } : EmergencyExitReturn(result)
    \/ StopLossCountdown
    \/ Tick

SpecHandlers == InitHandlers /\ [][NextHandlers]_vars

\* the risk manager
InitRisk ==
    /\ RiskInit
    /\ LedgerInit
    /\ PriceInit
    /\ StrategyInit
    /\ DipInit
    /\ config = CHOOSE c \in Configs : TRUE

NextRisk ==
    \/ \E o \in Opportunities, b \in Balances : CheckOpportunity(o, b)
    \/ \E t \in Trades : RecordTrade(t[1], t[2], t[3])
    \/ \E c \in OpenCounts : UpdateOpenPositions(c)
    \/ ForceTriggerCircuitBreaker
    \/ GetRiskMetrics
    \/ GetCooldownMarkets
    \/ RiskTick
    \/ Midnight

SpecRisk == InitRisk /\ [][NextRisk]_vars

\* several markets are evaluated concurrently against one RiskManager:
\* every record_trade follows an approval of check_opportunity for the same
\* market, and the calls of different markets interleave
NextApprovals ==
    \/ \E m \in RiskMarkets : ApproveTrade(m)
    \/ \E m \in RiskMarkets : RecordApprovedTrade(m)
    \/ RiskTick
    \/ Midnight

SpecApprovals == InitRisk /\ [][NextApprovals]_vars

\* the sizing of a trade: calculate_safe_size is applied to opportunities of
\* every liquidity and cost, at every balance
NextSizing ==
    \E max_volume \in { 0, 10, 40, 60, 200 },
       total_cost \in { 0, 500, 950, 1000, 1900 },
       current_balance \in { 0, 20, 45, 100, 1000 } :
       CalculateSafeSize([ market_id |-> "m1", potential_profit |-> 5,
                           total_cost |-> total_cost,
                           max_volume |-> max_volume ], current_balance)

SpecSizing == InitRisk /\ [][NextSizing]_vars

\* the position ledger
InitLedger ==
    /\ LedgerInit
    /\ PriceInit
    /\ StrategyInit
    /\ RiskInit
    /\ DipInit
    /\ config = CHOOSE c \in Configs : TRUE

NextLedger ==
    \/ \E k \in LedgerKeys, p \in EntryPrices, n \in EntrySizes :
          AddPosition(k[1], k[2], p, n)
    \/ \E k \in LedgerKeys, p \in ExitPrices, n \in CloseSizes :
          ClosePosition(k[1], k[2], p, n)
    \/ \E k \in LedgerKeys, p \in MarkPrices :
          UpdatePositionPrices(k[1], k[2], p)
    \/ \E p \in ForcePrices : ForceCloseAll(p)

SpecLedger == InitLedger /\ [][NextLedger]_vars

\* the dip detector: quotes with and without a timestamp argument reach a
\* service that neither runs a stop-loss timer nor merges
InitQuotes ==
    /\ DipInit
    /\ RiskInit
    /\ LedgerInit
    /\ PriceInit
    /\ StrategyInit
    /\ ~config.enable_stop_loss
    /\ ~config.auto_merge

NextQuotes ==
    \/ \E m \in Markets : SetMarket(m)
    \/ \E q \in WindowQuotes, ts \in QuoteTimestamps :
          \* one quote is also delivered late, with the old timestamp
          /\ ts # 0 => q = << 35, 65 >>
          /\ UpdatePrices(q[1], q[2], 0, 0, ts)
    \/ \E f \in Leg1Fills : RecordLeg1Fill(f[1], f[2], f[3])
    \/ \E f \in Leg2Fills : RecordLeg2Fill(f[1], f[2], f[3])
    \/ Tick

SpecQuotes == InitQuotes /\ [][NextQuotes]_vars

\* the price model: each function is applied to every quote of PriceLevels
InitPrices ==
    /\ price_op \in { Quoted(yes_ask, yes_bid, no_ask, no_bid) :
                        yes_ask \in PriceLevels, yes_bid \in PriceLevels,
                        no_ask \in PriceLevels, no_bid \in PriceLevels }
    /\ DipInit
    /\ RiskInit
    /\ LedgerInit
    /\ StrategyInit
    /\ config = CHOOSE c \in Configs : TRUE

NextPrices ==
    \/ GetEffectivePrices(price_op.args[1], price_op.args[2],
                          price_op.args[3], price_op.args[4])
    \/ \E threshold \in Thresholds :
          CheckArbitrage(price_op.args[1], price_op.args[2],
                         price_op.args[3], price_op.args[4], threshold)
    \/ \E threshold \in Thresholds : CheckArbitrageAgain(threshold)

SpecPrices == InitPrices /\ [][NextPrices]_vars

\* the strategy: each detector is applied to every orderbook list
InitStrategy ==
    /\ strategy_op \in { StrategyReturned("", min_profit, orderbooks, None) :
                           min_profit \in MinProfits,
                           orderbooks \in OrderbookLists }
    /\ DipInit
    /\ RiskInit
    /\ LedgerInit
    /\ PriceInit
    /\ config = CHOOSE c \in Configs : TRUE

NextStrategy ==
    \/ DetectArbitrage("m1")
    \/ DetectSpreadOpportunity("m1")

SpecStrategy == InitStrategy /\ [][NextStrategy]_vars

\* the bot: markets with two outcomes are processed, in paper trading and
\* live, as time passes
NextBot ==
    \/ \E market_id \in RiskMarkets, paper_trading \in BOOLEAN,
          asks \in { << OrderSummary(400, 100), OrderSummary(550, 50) >>,
                     << OrderSummary(400, 300), OrderSummary(550, 200) >>,
                     << OrderSummary(550, 50), OrderSummary(550, 50) >> } :
          ProcessMarket(market_id,
                        [ k \in 1..2 |->
                            OrderbookSnapshot(Tokens[k], << >>,
                                              << asks[k] >>) ],
                        paper_trading)
    \/ \E c \in OpenCounts : UpdateOpenPositions(c)
    \/ RiskTick
    \/ Midnight

SpecBot == InitRisk /\ [][NextBot]_vars

\* The event loop runs every task that is ready, the clock advances, and an
\* awaited sell_fn returns.
FairSpec ==
    /\ Spec
    /\ WF_vars(Tick)
    /\ WF_vars(StopLossCountdown)
    /\ WF_vars(ExecuteMerge)
    /\ WF_vars(\E result \in { "ok", "failed", "raise" } :
                  EmergencyExitReturn(result))

\* ------------------------------------------------------------------------
\* Claims about the round engine
\* ------------------------------------------------------------------------
AllowedTransitions ==
    { << WAITING, LEG1_FILLED >>, << LEG1_FILLED, COMPLETED >>,
      << LEG1_FILLED, STOP_LOSS >> }

\* the phase the round that is current now has after the step, whether it
\* stays current or is dropped by the step
PhaseAfter ==
    IF IsSome(current_round')
       /\ Val(current_round').round_id = Val(current_round).round_id
    THEN Val(current_round').phase
    ELSE Val(ended').phase

\* C1: in every step the phase of a round stays as it is or moves along
\* WAITING->LEG1_FILLED, LEG1_FILLED->COMPLETED or LEG1_FILLED->STOP_LOSS;
\* COMPLETED and STOP_LOSS are left by no step.
C1_PhaseTransitions ==
    [][ IsSome(current_round) =>
          \/ PhaseAfter = Val(current_round).phase
          \/ << Val(current_round).phase, PhaseAfter >> \in AllowedTransitions
      ]_vars

\* C2 (as claimed): a round with a new round_id is started only when the
\* previous round reached COMPLETED or STOP_LOSS.
C2_NewRoundOnlyAfterTerminal ==
    [][ round_counter' # round_counter =>
          \/ round_counter = 0
          \/ /\ IsSome(ended)
             /\ Val(ended).phase \in { COMPLETED, STOP_LOSS }
      ]_vars

\* C2 (amended): at most one round is current, and a round with a new
\* round_id is started only when no round is current, as a WAITING round
\* with the next id, after the previous round object was dropped (in a
\* terminal phase or, by set_market / rotate_to_next_market, in any phase).
C2_NewRoundOnlyWhenNoneCurrent ==
    [][ round_counter' # round_counter =>
          /\ ~IsSome(current_round)
          /\ IsSome(current_round')
          /\ Val(current_round') = DipArbRoundState(round_counter + 1)
          /\ round_counter' = round_counter + 1
          /\ round_counter > 0 =>
                IsSome(ended) /\ Val(ended).round_id = round_counter
      ]_vars

\* a second round started although the first was dropped while WAITING or
\* LEG1_FILLED
C2_Witness ==
    /\ round_counter = 2
    /\ IsSome(current_round)
    /\ IsSome(ended)
    /\ Val(ended).round_id = 1
    /\ Val(ended).phase \in { WAITING, LEG1_FILLED }

StopLossSignals(r) ==
    { i \in 1..Len(sell_signals) :
        /\ sell_signals[i].signal_type = "stop_loss"
        /\ sell_signals[i].round_id = r }

\* C3: with stop-loss enabled no round is still LEG1_FILLED (with no exit
\* under way) once leg2_timeout_seconds have passed since its leg-1 fill was
\* recorded: the stop-loss has fired by then; and no round gets two StopLoss
\* signals.
C3_StopLossFiresExactlyOnce ==
    /\ ( /\ config.enable_stop_loss
         /\ Phase = LEG1_FILLED
         /\ ~exit_call )
       => now <= Val(Val(current_round).leg1_fill_time)
                   + config.leg2_timeout_seconds
    /\ \A r \in 1..round_counter : Cardinality(StopLossSignals(r)) <= 1

\* C4: a StopLoss signal is emitted only for the round the timer was started
\* for, and never for a round whose leg-2 fill has been recorded.
C4_NoStopLossAfterLeg2Fill ==
    [][ ( /\ Len(sell_signals') > Len(sell_signals)
          /\ sell_signals'[Len(sell_signals')].signal_type = "stop_loss" )
        => /\ IsSome(current_round)
           /\ sell_signals'[Len(sell_signals')].round_id
                 = Val(stop_loss_task).for_round
           /\ Val(current_round).round_id = Val(stop_loss_task).for_round
           /\ ~IsSome(Val(current_round).leg2)
      ]_vars

\* C5: with stop-loss enabled, a round that is LEG1_FILLED eventually is not.
C5_Leg1NotHeldIndefinitely ==
    (config.enable_stop_loss /\ Phase = LEG1_FILLED) ~> (Phase # LEG1_FILLED)

\* C6: a Leg2 signal returned by update_prices carries the id of the current
\* round and the share count recorded for leg 1 of that round.
C6_Leg2ShareMatching ==
    ( /\ dip_op.op = "update_prices"
      /\ IsSome(dip_op.signal)
      /\ Val(dip_op.signal).signal_type = "leg2" )
    => /\ IsSome(current_round)
       /\ Val(dip_op.signal).round_id = Val(current_round).round_id
       /\ IsSome(Val(current_round).leg1)
       /\ Val(dip_op.signal).shares = Val(Val(current_round).leg1).shares

\* a Leg2 signal for 40 shares was returned in the second round
C6_Witness ==
    /\ dip_op.op = "update_prices"
    /\ IsSome(dip_op.signal)
    /\ Val(dip_op.signal).signal_type = "leg2"
    /\ Val(dip_op.signal).shares = 40
    /\ Val(dip_op.signal).round_id = 2

\* C11: an update_prices made in phase LEG1_FILLED outside the execution
\* cooldown returns a Leg2 signal exactly when leg1.price plus the current
\* ask of the side opposite to leg 1 is at most sum_target; the signal is
\* for the opposite side at that ask; and whenever update_prices returns a
\* Leg2 signal, leg1.price + target_price is at most sum_target.
C11_Leg2SignalAtSumTarget ==
    [][ \A q \in Quotes :
          ( /\ dip_op'.op = "update_prices"
            /\ price_history'[Len(price_history')].up_ask = q[1]
            /\ price_history'[Len(price_history')].down_ask = q[2]
            /\ UpdatePrices(q[1], q[2], 0, 0, 0) )
          => LET signal == dip_op'.signal
                 leg1 == Val(Val(current_round).leg1)
                 opposite == IF leg1.side = "UP" THEN "DOWN" ELSE "UP"
                 ask == IF opposite = "UP" THEN q[1] ELSE q[2]
             IN  /\ ( /\ Phase = LEG1_FILLED
                      /\ now - last_execution_time
                            >= config.execution_cooldown )
                    => /\ IsSome(signal)
                          <=> leg1.price + ask <= config.sum_target
                       /\ IsSome(signal)
                          => /\ Val(signal).signal_type = "leg2"
                             /\ Val(signal).side = opposite
                             /\ Val(signal).target_price = ask
                             /\ ~Val(signal).is_sell
                 /\ ( /\ IsSome(signal)
                      /\ Val(signal).signal_type = "leg2" )
                    => /\ Phase = LEG1_FILLED
                       /\ leg1.price + Val(signal).target_price
                             <= config.sum_target
      ]_vars

\* a Leg2 signal was returned with leg1.price + target_price equal to
\* sum_target
C11_Witness ==
    /\ dip_op.op = "update_prices"
    /\ IsSome(dip_op.signal)
    /\ Val(dip_op.signal).signal_type = "leg2"
    /\ Phase = LEG1_FILLED
    /\ Val(Val(current_round).leg1).price + Val(dip_op.signal).target_price
          = config.sum_target

\* a leg-1-only position exists
Leg1OnlyPosition ==
    /\ IsSome(current_round)
    /\ IsSome(Val(current_round).leg1)
    /\ ~IsSome(Val(current_round).leg2)

\* C13: emergency_exit_leg1 acts exactly when a leg-1-only position exists.
\* With no sell function it then emits exactly one EmergencyExit sell signal
\* for the leg-1 shares, cancels the countdown, puts the round in STOP_LOSS
\* and resets it; with a sell function it cancels the countdown and awaits
\* the sell.  In every other state it returns a failure result, requests no
\* sell and changes no state.
C13_EmergencyExitOnlyOnLeg1Only ==
    [][ /\ ( /\ dip_op'.op = "emergency_exit_leg1"
             /\ EmergencyExitLeg1 )
           => IF Leg1OnlyPosition
              THEN /\ dip_op'.ok
                   /\ Len(sell_signals') = Len(sell_signals) + 1
                   /\ sell_signals'[Len(sell_signals')].signal_type
                         = "emergency_exit"
                   /\ sell_signals'[Len(sell_signals')].shares
                         = Val(Val(current_round).leg1).shares
                   /\ stop_loss_task' = None
                   /\ current_round' = None
                   /\ Val(ended').phase = STOP_LOSS
              ELSE /\ ~dip_op'.ok
                   /\ UNCHANGED << current_round, stop_loss_task,
                                   sell_signals, ended >>
        /\ ( /\ dip_op'.op \in { "emergency_exit_leg1",
                                  "emergency_exit_leg1:await" }
             /\ EmergencyExitCall )
           => IF Leg1OnlyPosition
              THEN /\ exit_call'
                   /\ stop_loss_task' = None
              ELSE /\ ~dip_op'.ok
                   /\ UNCHANGED << stop_loss_task, exit_call >>
      ]_vars

\* C17: rotate_to_next_market replaces the market configuration, clears the
\* price history and the current round (cancelling its countdown), counts
\* the rotation and emits no signal.  No sell signal is emitted later for a
\* round it dropped: a sell signal is emitted only for the round that is
\* current, and a round that is current either was current before the step
\* or is new, with an id above every earlier one.
C17_RotationWithoutLiquidation ==
    [][ /\ \A m \in Markets :
              ( /\ dip_op'.op = "rotate_to_next_market"
                /\ RotateToNextMarket(m) )
              => /\ market' = Some(m)
                 /\ price_history' = << >>
                 /\ current_round' = None
                 /\ stop_loss_task' = None
                 /\ markets_rotated' = markets_rotated + 1
                 /\ sell_signals' = sell_signals
                 /\ IsSome(current_round)
                    => ended' = Dropped(Val(current_round))
        /\ sell_signals' # sell_signals
           => /\ IsSome(current_round)
              /\ Len(sell_signals') = Len(sell_signals) + 1
              /\ sell_signals'[Len(sell_signals')].round_id
                    = Val(current_round).round_id
        /\ IsSome(current_round)
           => Val(current_round).round_id = round_counter
        /\ IsSome(current_round')
           => Val(current_round').round_id = round_counter'
        /\ round_counter' >= round_counter
        /\ round_counter' > round_counter => ~IsSome(current_round)
      ]_vars

\* a rotation dropped a round that held leg 1 only, with stop-loss enabled,
\* and no sell signal was emitted
C17_Witness ==
    /\ dip_op.op = "rotate_to_next_market"
    /\ config.enable_stop_loss
    /\ markets_rotated = 1
    /\ current_round = None
    /\ stop_loss_task = None
    /\ IsSome(ended)
    /\ Val(ended).phase = LEG1_FILLED
    /\ Val(ended).round_id = round_counter
    /\ sell_signals = << >>

\* the asks of one side in the quotes of h stamped no earlier than the start
\* of the window that trails ts, in the order they were recorded
WindowAsks(h, side, ts) ==
    LET inside == SelectSeq(h, LAMBDA p :
                      p.timestamp >= ts - config.sliding_window_s)
    IN  [ i \in 1..Len(inside) |-> AskOf(inside[i], side) ]

\* the ask is at least dip_threshold, as a fraction of the maximum, below the
\* maximum of the asks
DipBelowMax(asks, ask) ==
    /\ SeqMax(asks) > 0
    /\ (SeqMax(asks) - ask) * 100 >= config.dip_threshold_pct * SeqMax(asks)

\* as claimed: the current ask of the side against the earlier quotes
DipAsClaimed(side, ask, ts) ==
    DipBelowMax(WindowAsks(price_history, side, ts), ask)

\* as amended: the last positive ask of the side in the window, the quote
\* just recorded included, against the positive asks recorded before it
DipOfPositiveAsks(side, ts) ==
    LET positive == SelectSeq(WindowAsks(price_history', side, ts),
                              LAMBDA a : a > 0)
    IN  /\ Len(positive) >= 2
        /\ DipBelowMax(SubSeq(positive, 1, Len(positive) - 1),
                       positive[Len(positive)])

\* what update_prices(up_ask, down_ask, timestamp) returns when it is made
\* in phase WAITING (a round it starts itself included) outside the execution
\* cooldown, the sides up and down qualifying
Leg1SignalFor(up, down, up_ask, down_ask) ==
    LET signal == dip_op'.signal
    IN  /\ IsSome(signal) <=> (up \/ down)
        /\ IsSome(signal)
           => /\ Val(signal).signal_type = "leg1"
              /\ Val(signal).side = IF up THEN "UP" ELSE "DOWN"
              /\ Val(signal).target_price = IF up THEN up_ask ELSE down_ask
              /\ Val(signal).round_id = Val(current_round').round_id

WaitingOutsideCooldown(ts) ==
    /\ ts - last_execution_time >= config.execution_cooldown
    /\ Phase \in { "idle", WAITING }

NewestTimestamp ==
    SeqMax([ i \in 1..Len(price_history) |-> price_history[i].timestamp ])

\* C18: an update_prices whose timestamp is older than the newest quote
\* already recorded returns no signal.
C18_StaleQuoteIgnored ==
    [][ \A q \in WindowQuotes, t \in QuoteTimestamps :
          ( /\ dip_op'.op = "update_prices"
            /\ UpdatePrices(q[1], q[2], 0, 0, t)
            /\ t # 0
            /\ price_history # << >>
            /\ t < NewestTimestamp )
          => ~IsSome(dip_op'.signal)
      ]_vars

\* C30: every quote is appended to the history, and an update_prices that
\* returns a signal right after an update_prices that returned one has a
\* timestamp at least execution_cooldown after the timestamp of that one.
C30_NoSignalStorm ==
    [][ \A q \in Quotes, t \in Timestamps(now) :
          ( /\ dip_op'.op = "update_prices"
            /\ UpdatePrices(q[1], q[2], 0, 0, t) )
          => LET newest == price_history'[Len(price_history')]
             IN  /\ newest.up_ask = q[1]
                 /\ newest.down_ask = q[2]
                 /\ ( /\ dip_op.op = "update_prices"
                      /\ IsSome(dip_op.signal)
                      /\ IsSome(dip_op'.signal) )
                    => newest.timestamp
                          - price_history[Len(price_history)].timestamp
                       >= config.execution_cooldown
      ]_vars

\* ------------------------------------------------------------------------
\* Claims about the risk manager
\* ------------------------------------------------------------------------

\* C7 (as claimed): after record_trade has taken daily_pnl from above
\* daily_pnl_limit to or below it, check_opportunity rejects every call made
\* on the same day less than circuit_breaker_cooldown seconds later.
C7_RejectsUntilCooldownSinceBreach ==
    [][ \A o \in Opportunities, b \in Balances :
          ( /\ risk_op'.op = "check_opportunity"
            /\ CheckOpportunity(o, b)
            /\ IsSome(last_breach)
            /\ Val(last_breach).date = today
            /\ risk_clock - Val(last_breach).time
                  < rm.circuit_breaker_cooldown )
          => ~risk_op'.ok
      ]_vars

\* C7 (amended): a record_trade that leaves daily_pnl at or below
\* daily_pnl_limit leaves the breaker triggered; while no day rollover is
\* due a triggered breaker keeps its trigger time through every operation,
\* profitable trades and further breaches included, and is released only by
\* a check_opportunity made circuit_breaker_cooldown seconds or more after
\* that trigger time; every check_opportunity made earlier is rejected.
C7_BreakerLatch ==
    [][ /\ ( /\ \E t \in Trades : RecordTrade(t[1], t[2], t[3])
             /\ rm'.daily_pnl <= rm'.daily_pnl_limit )
           => /\ rm'.circuit_breaker_triggered
              /\ IsSome(rm'.circuit_breaker_time)
        /\ ( /\ rm.circuit_breaker_triggered
             /\ rm.current_date = today )
           => /\ rm'.circuit_breaker_triggered
                 => rm'.circuit_breaker_time = rm.circuit_breaker_time
              /\ ~rm'.circuit_breaker_triggered
                 => /\ risk_op'.op = "check_opportunity"
                    /\ \E o \in Opportunities, b \in Balances :
                          CheckOpportunity(o, b)
                    /\ risk_clock - Val(rm.circuit_breaker_time)
                          >= rm.circuit_breaker_cooldown
              /\ \A o \in Opportunities, b \in Balances :
                    ( /\ risk_op'.op = "check_opportunity"
                      /\ CheckOpportunity(o, b)
                      /\ risk_clock - Val(rm.circuit_breaker_time)
                            < rm.circuit_breaker_cooldown )
                    => ~risk_op'.ok
      ]_vars

\* a call was rejected by the breaker a loss had triggered although later
\* profit had lifted daily_pnl above the limit again
C7_Witness ==
    /\ risk_op.op = "check_opportunity"
    /\ risk_op.gate = 1
    /\ rm.circuit_breaker_reason = Some("Daily P&L limit breached")
    /\ rm.daily_pnl > rm.daily_pnl_limit
    /\ rm.current_date = today

\* C14: a get_risk_metrics made when the breaker is triggered and
\* circuit_breaker_cooldown has elapsed since it was triggered resets the
\* breaker and reports circuit_breaker_active = false.
C14_MetricsReadResetsBreaker ==
    [][ ( /\ risk_op'.op = "get_risk_metrics"
          /\ GetRiskMetrics
          /\ rm.circuit_breaker_triggered
          /\ IsSome(rm.circuit_breaker_time)
          /\ risk_clock - Val(rm.circuit_breaker_time)
                >= rm.circuit_breaker_cooldown )
        => /\ ~rm'.circuit_breaker_triggered
           /\ ~Val(risk_op'.about).circuit_breaker_active
      ]_vars

\* the prior day's daily_pnl and trade count are archived under the prior
\* date and the manager is on the new day
ArchivedAndRolled ==
    /\ rm'.current_date = today
    /\ IsSome(rm'.daily_stats[rm.current_date])
    /\ Val(rm'.daily_stats[rm.current_date]).date = rm.current_date
    /\ Val(rm'.daily_stats[rm.current_date]).total_pnl = rm.daily_pnl
    /\ Val(rm'.daily_stats[rm.current_date]).trades_count
          = rm.daily_trades_count

CoolingDown(m) ==
    /\ IsSome(rm.cooldown_markets[m])
    /\ risk_clock < Val(rm.cooldown_markets[m])

GatePasses(i, s, o, b, t) ==
    CASE i = 1 -> \/ ~s.circuit_breaker_triggered
                  \/ t - Val(s.circuit_breaker_time)
                        >= s.circuit_breaker_cooldown
      [] i = 2 -> ~ ( /\ IsSome(s.cooldown_markets[o.market_id])
                      /\ t < Val(s.cooldown_markets[o.market_id]) )
      [] i = 3 -> t - s.last_trade_time >= s.min_trade_interval
      [] i = 4 -> s.daily_trades_count < s.max_daily_trades
      [] i = 5 -> s.open_positions_count < s.max_open_positions
      [] i = 6 -> o.potential_profit >= s.min_profit
      [] i = 7 -> o.total_cost * o.max_volume <= b
      [] i = 8 -> o.max_volume > 0

FailingGates(s, o, b, t) == { i \in 1..8 : ~GatePasses(i, s, o, b, t) }

FirstFailingGate(s, o, b, t) ==
    LET failing == FailingGates(s, o, b, t)
    IN  IF failing = {}
        THEN 0
        ELSE CHOOSE i \in failing : \A j \in failing : i <= j

\* the manager s after the gates up to the first failing one have run: a
\* breaker whose cooldown has elapsed is reset by gate 1, the market's
\* expired cooldown is purged by gate 2 if gate 2 is reached
AfterGates(s, o, b, t) ==
    LET released == IF s.circuit_breaker_triggered /\ GatePasses(1, s, o, b, t)
                    THEN ResetCircuitBreaker(s)
                    ELSE s
        due == /\ FirstFailingGate(s, o, b, t) # 1
               /\ IsSome(s.cooldown_markets[o.market_id])
               /\ t >= Val(s.cooldown_markets[o.market_id])
    IN  IF due
        THEN [ released EXCEPT !.cooldown_markets[o.market_id] = None ]
        ELSE released

\* C8: check_opportunity returns true exactly when all eight gates pass,
\* leaves by the first failing gate, and has the side effects of the gates
\* up to that one and of no later gate.
C8_GatesInOrder ==
    [][ risk_op'.op = "check_opportunity" =>
          \A o \in Opportunities, b \in Balances :
            ( /\ risk_op'.about = Some(o.market_id)
              /\ CheckOpportunity(o, b) ) =>
              LET s == CheckDayRollover(rm, today)
                  first == FirstFailingGate(s, o, b, risk_clock)
              IN  /\ risk_op'.ok = (first = 0)
                  /\ risk_op'.gate = first
                  /\ rm' = AfterGates(s, o, b, risk_clock)
      ]_vars

\* a call was rejected by gate 1 and the expired cooldown of its market is
\* still recorded
C8_Witness ==
    /\ risk_op.op = "check_opportunity"
    /\ risk_op.gate = 1
    /\ IsSome(rm.cooldown_markets[Val(risk_op.about)])
    /\ risk_clock >= Val(rm.cooldown_markets[Val(risk_op.about)])

RECURSIVE RunningTotal(_, _)
RunningTotal(log, n) ==
    IF n = 0 THEN 0 ELSE RunningTotal(log, n - 1) + log[n]

PeakSoFar(log, n) ==
    CHOOSE p \in { RunningTotal(log, k) : k \in 0..n } :
        \A k \in 0..n : RunningTotal(log, k) <= p

MaxDrawdownOf(log) ==
    CHOOSE d \in { PeakSoFar(log, n) - RunningTotal(log, n) :
                     n \in 0..Len(log) } :
        \A n \in 0..Len(log) :
            PeakSoFar(log, n) - RunningTotal(log, n) <= d

\* C9: max_drawdown equals the maximum, over the trades recorded so far, of
\* the highest running total reached minus the running total.
C9_MaxDrawdownOfRunningTotal ==
    rm.max_drawdown = MaxDrawdownOf(pnl_log)

\* ------------------------------------------------------------------------
\* Claims about the position ledger
\* ------------------------------------------------------------------------

\* C10: add_position on a key with an open position leaves one position for
\* the key, its size the sum of the sizes and its entry price the
\* size-weighted mean of the two entry prices, and changes nothing else; on
\* a key with none it adds one position whose current, highest and lowest
\* price are the entry price.
C10_PositionAveraging ==
    [][ \A k \in LedgerKeys, p \in EntryPrices, n \in EntrySizes :
          ( /\ ledger_op'.op = "add_position"
            /\ AddPosition(k[1], k[2], p, n) ) =>
            LET i == KeyIndex(positions, k[1], k[2])
                old == positions[i]
                new == positions'[IF i # 0 THEN i ELSE Len(positions')]
            IN  /\ Cardinality({ j \in 1..Len(positions') :
                                   /\ positions'[j].market_id = k[1]
                                   /\ positions'[j].token_id = k[2] }) = 1
                /\ IF i # 0
                   THEN /\ Len(positions') = Len(positions)
                        /\ \A j \in 1..Len(positions) :
                              j # i => positions'[j] = positions[j]
                        /\ new.size = old.size + n
                        /\ new.entry_price[1] * old.entry_price[2]
                              * (old.size + n)
                           = new.entry_price[2]
                              * (old.entry_price[1] * old.size
                                   + p * n * old.entry_price[2])
                        /\ new = [ old EXCEPT
                                     !.size = new.size,
                                     !.entry_price = new.entry_price ]
                   ELSE /\ Len(positions') = Len(positions) + 1
                        /\ SubSeq(positions', 1, Len(positions)) = positions
                        /\ new.size = n
                        /\ new.entry_price = << p, 1 >>
                        /\ new.current_price = p
                        /\ new.highest_price = p
                        /\ new.lowest_price = p
                        /\ ~new.closed
      ]_vars

\* 10 at 40 then 10 at 60 on the same key: one position of 20 at 50
C10_Witness ==
    /\ ledger_op = LedgerReturned("add_position", TRUE)
    /\ ledger_calls = 2
    /\ Len(positions) = 1
    /\ positions[1].size = 20
    /\ positions[1].entry_price = << 50, 1 >>
    /\ positions[1].current_price = 40

\* C25: close_position with a requested size at least the open size, or with
\* no size, marks the position closed at the exit price, appends it to the
\* closed list and removes it from the open map; with a requested size
\* smaller than the open size it appends a closed snapshot of exactly the
\* requested size and leaves the position open with its size reduced by
\* that amount; on an unknown key it returns none and changes nothing.
C25_ClosePosition ==
    [][ \A k \in LedgerKeys, p \in ExitPrices, n \in CloseSizes :
          ( /\ ledger_op'.op = "close_position"
            /\ ClosePosition(k[1], k[2], p, n) ) =>
            LET i == KeyIndex(positions, k[1], k[2])
                old == positions[i]
                snapshot == closed_positions'[Len(closed_positions')]
            IN  /\ i = 0
                   => /\ ~ledger_op'.found
                      /\ positions' = positions
                      /\ closed_positions' = closed_positions
                      /\ trades' = trades
                /\ ( /\ i # 0
                     /\ ( n = None \/ Val(n) >= old.size ) )
                   => /\ positions' = Without(positions, i)
                      /\ closed_positions' =
                            Append(closed_positions,
                                   [ old EXCEPT !.closed = TRUE,
                                                !.exit_price = Some(p) ])
                /\ ( /\ i # 0
                     /\ IsSome(n)
                     /\ Val(n) < old.size )
                   => /\ Len(closed_positions') = Len(closed_positions) + 1
                      /\ SubSeq(closed_positions', 1, Len(closed_positions))
                            = closed_positions
                      /\ snapshot.closed
                      /\ snapshot.exit_price = Some(p)
                      /\ snapshot.size = Val(n)
                      /\ positions' =
                            [ positions EXCEPT ![i].size = old.size - Val(n) ]
                      /\ positions'[i].size + snapshot.size = old.size
      ]_vars

\* size * current_price - size * entry_price of a position
MarkedPnl(p) ==
    Frac(p.size * p.current_price * p.entry_price[2]
            - p.size * p.entry_price[1],
         p.entry_price[2])

\* C26: an open position has unrealized_pnl = size * current_price - size *
\* entry_price whatever its current price was updated to; a closed one has
\* realized_pnl = (exit_price - entry_price) * size and unrealized_pnl = 0.
C26_PositionPnl ==
    /\ \A i \in 1..Len(positions) :
          unrealized_pnl(positions[i]) = MarkedPnl(positions[i])
    /\ \A i \in 1..Len(closed_positions) :
          LET p == closed_positions[i]
          IN  /\ unrealized_pnl(p) = Frac(0, 1)
              /\ realized_pnl(p) =
                    Frac(( Val(p.exit_price) * p.entry_price[2]
                             - p.entry_price[1] ) * p.size,
                         p.entry_price[2])

\* C27: every position of the open map has size > 0 and is not closed,
\* every entry of the closed list is closed, and a (market, token) key has
\* at most one open position.
C27_LedgerInvariant ==
    /\ \A i \in 1..Len(positions) :
          /\ positions[i].size > 0
          /\ ~positions[i].closed
    /\ \A i \in 1..Len(closed_positions) : closed_positions[i].closed
    /\ \A i, j \in 1..Len(positions) :
          ( /\ positions[i].market_id = positions[j].market_id
            /\ positions[i].token_id = positions[j].token_id ) => i = j

\* a partial close left the position open beside its closed snapshot, after
\* another position was closed in full
C27_Witness ==
    /\ ledger_op = LedgerReturned("close_position", TRUE)
    /\ Len(positions) = 1
    /\ Len(closed_positions) = 2
    /\ \E i \in 1..2 :
          /\ closed_positions[i].market_id = positions[1].market_id
          /\ closed_positions[i].token_id = positions[1].token_id
          /\ closed_positions[i].size = 10
          /\ positions[1].size = 10

\* ------------------------------------------------------------------------
\* Claims about the price model
\* ------------------------------------------------------------------------
\* C19: get_effective_prices returns min(yes_ask, 1 - no_bid),
\* min(no_ask, 1 - yes_bid), max(yes_bid, 1 - no_ask) and
\* max(no_bid, 1 - yes_ask), and the direct ask or bid where the mirror
\* quote is zero (absent).
C19_EffectivePrices ==
    ( /\ price_op.op = "get_effective_prices"
      /\ IsSome(price_op.result) )
    => LET yes_ask == price_op.args[1]
           yes_bid == price_op.args[2]
           no_ask == price_op.args[3]
           no_bid == price_op.args[4]
           eff == Val(price_op.result)
       IN  /\ eff.effective_buy_yes =
                 IF no_bid = 0 THEN yes_ask ELSE Min(yes_ask, 1000 - no_bid)
           /\ eff.effective_buy_no =
                 IF yes_bid = 0 THEN no_ask ELSE Min(no_ask, 1000 - yes_bid)
           /\ eff.effective_sell_yes =
                 IF no_ask = 0 THEN yes_bid ELSE Max(yes_bid, 1000 - no_ask)
           /\ eff.effective_sell_no =
                 IF yes_ask = 0 THEN no_bid ELSE Max(no_bid, 1000 - yes_ask)

\* C20: check_arbitrage returns a long record exactly when long_profit is
\* above the threshold, otherwise a short record exactly when short_profit
\* is above it, otherwise none; profit and cost_or_revenue are those of the
\* side returned, computed from the effective prices of the quote.
C20_CheckArbitrage ==
    price_op.op = "check_arbitrage"
    => LET eff == get_effective_prices(price_op.args[1], price_op.args[2],
                                       price_op.args[3], price_op.args[4])
           threshold == price_op.args[5]
           long == 1000 - (eff.effective_buy_yes + eff.effective_buy_no)
           short == (eff.effective_sell_yes + eff.effective_sell_no) - 1000
           info == Val(price_op.result)
       IN  /\ ( /\ IsSome(price_op.result)
                /\ info.type = "long" ) <=> long > threshold
           /\ ( /\ IsSome(price_op.result)
                /\ info.type = "short" )
              <=> ( long <= threshold /\ short > threshold )
           /\ ~IsSome(price_op.result)
              <=> ( long <= threshold /\ short <= threshold )
           /\ IsSome(price_op.result)
              => /\ info.type \in { "long", "short" }
                 /\ info.effective_prices = eff
                 /\ info.type = "long"
                    => /\ info.profit = long
                       /\ info.cost_or_revenue = 1000 - long
                 /\ info.type = "short"
                    => /\ info.profit = short
                       /\ info.cost_or_revenue = 1000 + short

\* a long record was returned for a quote whose short_profit is above the
\* threshold too
C20_Witness ==
    /\ price_op.op = "check_arbitrage"
    /\ IsSome(price_op.result)
    /\ Val(price_op.result).type = "long"
    /\ short_profit(Val(price_op.result).effective_prices)
          > price_op.args[5]
    /\ long_profit(Val(price_op.result).effective_prices)
          > price_op.args[5]

\* the quote of the call: neither book is crossed
BooksNotCrossed ==
    /\ price_op.args[2] <= price_op.args[1]
    /\ price_op.args[4] <= price_op.args[3]

\* C21 as claimed: on a quote with neither book crossed, long_profit and
\* short_profit are never both above the threshold of a check_arbitrage call.
C21_NeverBothAboveThreshold ==
    ( /\ price_op.op = "check_arbitrage"
      /\ BooksNotCrossed )
    => LET eff == get_effective_prices(price_op.args[1], price_op.args[2],
                                       price_op.args[3], price_op.args[4])
       IN  ~( /\ long_profit(eff) > price_op.args[5]
              /\ short_profit(eff) > price_op.args[5] )

\* C21: for every quote with prices between 0 and 1, crossed or not, the
\* effective prices give long_profit = short_profit, so both are above the
\* threshold whenever one is, and every record check_arbitrage returns is a
\* long record chosen by the long-first tie-break.
C21_ProfitsCoincide ==
    /\ ( /\ price_op.op = "get_effective_prices"
         /\ IsSome(price_op.result) )
       => long_profit(Val(price_op.result))
             = short_profit(Val(price_op.result))
    /\ ( /\ price_op.op = "check_arbitrage"
         /\ IsSome(price_op.result) )
       => LET info == Val(price_op.result)
          IN  /\ info.type = "long"
              /\ long_profit(info.effective_prices) > price_op.args[5]
              /\ short_profit(info.effective_prices) > price_op.args[5]

\* check_arbitrage returned a record for a quote with neither book crossed,
\* and both profits of the quote are above the threshold
C21_Witness ==
    /\ price_op.op = "check_arbitrage"
    /\ BooksNotCrossed
    /\ price_op.args[2] > 0
    /\ price_op.args[4] > 0
    /\ price_op.args[1] < 1000
    /\ price_op.args[3] < 1000
    /\ IsSome(price_op.result)
    /\ long_profit(Val(price_op.result).effective_prices) > price_op.args[5]
    /\ short_profit(Val(price_op.result).effective_prices) > price_op.args[5]

\* C22: on the same quote, a check_arbitrage call that reports an
\* opportunity at a threshold reports one at every lower threshold; the
\* quote 0.50/0.48/0.49/0.47 is detected at 0.001 and not at 0.02.
C22_ThresholdMonotonicity ==
    ( /\ price_op.op = "check_arbitrage"
      /\ IsSome(price_op.earlier) )
    => LET t_first == Val(price_op.earlier)[1]
           r_first == Val(price_op.earlier)[2]
           t_second == price_op.args[5]
           r_second == price_op.result
       IN  /\ ( t_first < t_second /\ IsSome(r_second) ) => IsSome(r_first)
           /\ ( t_second < t_first /\ IsSome(r_first) ) => IsSome(r_second)
           /\ ( /\ << price_op.args[1], price_op.args[2], price_op.args[3],
                      price_op.args[4] >> = << 500, 480, 490, 470 >>
                /\ t_first = 1
                /\ t_second = 20 )
              => ( IsSome(r_first) /\ ~IsSome(r_second) )

\* the same quote was checked at a lower and then at a higher threshold, and
\* an opportunity was reported both times
C22_Witness ==
    /\ price_op.op = "check_arbitrage"
    /\ IsSome(price_op.earlier)
    /\ Val(price_op.earlier)[1] < price_op.args[5]
    /\ IsSome(price_op.result)
    /\ IsSome(Val(price_op.earlier)[2])

\* ------------------------------------------------------------------------
\* Claims about the strategy
\* ------------------------------------------------------------------------
\* the best asks of the orderbooks handed to the strategy, and the sizes of
\* their top ask levels
BestAsks ==
    [ i \in DOMAIN strategy_op.orderbooks |->
        strategy_op.orderbooks[i].best_ask ]

TopAskSizes ==
    [ i \in DOMAIN strategy_op.orderbooks |->
        strategy_op.orderbooks[i].asks[1].size ]

EveryBookHasAsks ==
    /\ strategy_op.orderbooks # << >>
    /\ \A i \in DOMAIN strategy_op.orderbooks :
          strategy_op.orderbooks[i].asks # << >>

\* C23: detect_arbitrage returns none on an empty book list or when a book
\* has no asks; otherwise it returns an opportunity exactly when
\* 1 - total_cost * (1 + fee) >= min_profit, total_cost being the sum of the
\* best asks; the opportunity has one price per outcome token and max_volume
\* is the smallest top-level ask size.
C23_DetectArbitrage ==
    strategy_op.op = "detect_arbitrage"
    => /\ ~EveryBookHasAsks => strategy_op.result = None
       /\ EveryBookHasAsks
          => /\ IsSome(strategy_op.result)
                <=> 1000000 - SumOf(BestAsks) * (1000 + FEE_RATE)
                       >= strategy_op.min_profit
             /\ IsSome(strategy_op.result)
                => LET opp == Val(strategy_op.result)
                   IN  /\ opp.total_cost = SumOf(BestAsks)
                       /\ Len(opp.prices) = Len(opp.outcomes)
                       /\ Len(opp.outcomes) = Len(strategy_op.orderbooks)
                       /\ opp.prices = BestAsks
                       /\ \A i \in DOMAIN TopAskSizes :
                             opp.max_volume <= TopAskSizes[i]
                       /\ \E i \in DOMAIN TopAskSizes :
                             opp.max_volume = TopAskSizes[i]

\* an opportunity was returned for the two books of the test, at a min_profit
\* equal to the profit they give
C23_Witness ==
    /\ strategy_op.op = "detect_arbitrage"
    /\ IsSome(strategy_op.result)
    /\ Val(strategy_op.result).potential_profit = strategy_op.min_profit
    /\ Val(strategy_op.result).max_volume = 50
    /\ Len(strategy_op.orderbooks) = 2

\* C24: the potential_profit of every opportunity detect_arbitrage returns is
\* 1 minus the sum of the best asks (0.40 and 0.55 give 0.05).
C24_ProfitIsOneMinusCost ==
    ( /\ strategy_op.op = "detect_arbitrage"
      /\ IsSome(strategy_op.result) )
    => Val(strategy_op.result).potential_profit
          = 1000000 - 1000 * SumOf(BestAsks)

\* C29: detect_spread_opportunity returns none unless exactly two books with
\* bids and asks are given; the first book is YES and the second NO; it
\* returns a YES opportunity when (1 - NO.best_bid - fee) - YES.best_ask is
\* above min_profit, otherwise a NO opportunity when
\* (1 - YES.best_bid - fee) - NO.best_ask is above it, otherwise none;
\* max_volume is the smaller of the top ask size of the side bought and the
\* top bid size of the other side.
C29_DetectSpreadOpportunity ==
    strategy_op.op = "detect_spread_opportunity"
    => LET obs == strategy_op.orderbooks
           two_sided ==
               /\ Len(obs) = 2
               /\ \A i \in 1..2 : obs[i].asks # << >> /\ obs[i].bids # << >>
           yes_profit ==
               ( 1000 - obs[2].best_bid - FEE_RATE - obs[1].best_ask ) * 1000
           no_profit ==
               ( 1000 - obs[1].best_bid - FEE_RATE - obs[2].best_ask ) * 1000
           opp == Val(strategy_op.result)
       IN  /\ ~two_sided => strategy_op.result = None
           /\ two_sided
              => /\ yes_profit > strategy_op.min_profit
                    => /\ IsSome(strategy_op.result)
                       /\ opp.side = "YES"
                       /\ opp.token_id = obs[1].asset_id
                       /\ opp.entry_price = obs[1].best_ask
                       /\ opp.expected_profit = yes_profit
                       /\ opp.max_volume =
                             Min(obs[1].asks[1].size, obs[2].bids[1].size)
                 /\ ( /\ yes_profit <= strategy_op.min_profit
                      /\ no_profit > strategy_op.min_profit )
                    => /\ IsSome(strategy_op.result)
                       /\ opp.side = "NO"
                       /\ opp.token_id = obs[2].asset_id
                       /\ opp.entry_price = obs[2].best_ask
                       /\ opp.expected_profit = no_profit
                       /\ opp.max_volume =
                             Min(obs[2].asks[1].size, obs[1].bids[1].size)
                 /\ ( /\ yes_profit <= strategy_op.min_profit
                      /\ no_profit <= strategy_op.min_profit )
                    => strategy_op.result = None

\* a YES opportunity was returned for two books on which buying NO is above
\* min_profit too
C29_Witness ==
    /\ strategy_op.op = "detect_spread_opportunity"
    /\ IsSome(strategy_op.result)
    /\ Val(strategy_op.result).side = "YES"
    /\ ( 1000 - strategy_op.orderbooks[1].best_bid - FEE_RATE
            - strategy_op.orderbooks[2].best_ask ) * 1000
          > strategy_op.min_profit

\* ------------------------------------------------------------------------
\* Claims about the sizing of a trade
\* ------------------------------------------------------------------------
\* C28: calculate_safe_size returns the minimum of max_volume,
\* max_position_size / total_cost and 0.95 * balance / total_cost: the size
\* never exceeds the liquidity, and size * total_cost exceeds neither
\* max_position_size nor 95% of the balance.
C28_SafeSize ==
    risk_op.op = "calculate_safe_size"
    => LET o == Val(risk_op.about)[1]
           balance == Val(risk_op.about)[2]
           size == Val(risk_op.about)[3]
           \* size <= n / d and size = n / d, for d > 0
           AtMost(n, d) == size[1] * d <= n * size[2]
           Equals(n, d) == size[1] * d = n * size[2]
       IN  /\ size[2] > 0
           /\ AtMost(o.max_volume, 1)
           /\ size[1] * o.total_cost <= rm.max_position_size * 1000 * size[2]
           /\ size[1] * o.total_cost * 100 <= 95 * balance * 1000 * size[2]
           /\ o.total_cost > 0
              => /\ AtMost(rm.max_position_size * 1000, o.total_cost)
                 /\ AtMost(95 * balance * 10, o.total_cost)
                 /\ \/ Equals(o.max_volume, 1)
                    \/ Equals(rm.max_position_size * 1000, o.total_cost)
                    \/ Equals(95 * balance * 10, o.total_cost)

\* the balance binds: the size returned is 0.95 * 45 / 0.95 = 45, below the
\* liquidity of 60 and below 50 / 0.95
C28_Witness ==
    /\ risk_op.op = "calculate_safe_size"
    /\ Val(risk_op.about)[1].max_volume = 60
    /\ Val(risk_op.about)[1].total_cost = 950
    /\ Val(risk_op.about)[2] = 45
    /\ Val(risk_op.about)[3] = << 45, 1 >>

\* ------------------------------------------------------------------------
\* Claims about the end of a round and about failing collaborators
\* ------------------------------------------------------------------------

\* C31: the operation that moves a round to COMPLETED or STOP_LOSS clears the
\* current-round reference, so no call made afterwards (update_prices, a fill
\* recording, get_status) finds a current round in a terminal phase.
C31_RoundDestroyedOnTerminalTransition ==
    Phase \notin { COMPLETED, STOP_LOSS }

C33_FailedExitLeavesRoundUntouched ==
    [][ \A result \in { "failed", "raise" } :
          ( /\ exit_call
            /\ Phase = LEG1_FILLED
            /\ EmergencyExitReturn(result) )
          => /\ ~dip_op'.ok
             /\ current_round' = current_round
             /\ config.enable_stop_loss
                => /\ IsSome(stop_loss_task')
                   /\ ~Val(stop_loss_task').done
      ]_vars

\* an update_prices(up_ask, down_ask) made now finds a signal to emit
SignalDue(up_ask, down_ask) ==
    /\ now - last_execution_time >= config.execution_cooldown
    /\ \/ /\ Phase \in { "idle", WAITING }
          /\ \/ DetectSlidingWindowDip(price_history', "UP", now)
             \/ DetectSlidingWindowDip(price_history', "DOWN", now)
       \/ /\ Phase = LEG1_FILLED
          /\ IsSome(CheckLeg2Opportunity(current_round, up_ask, down_ask))

\* C34: with a signal handler that raises, the operation that emits a signal
\* still completes: update_prices returns the Leg1 or Leg2 signal it
\* emitted, the stop-loss countdown that timed out moves its round to
\* STOP_LOSS, counts it in rounds_stop_loss and resets it, and
\* emergency_exit_leg1 without a sell function succeeds and resets the round.
C34_HandlerFailureIsContained ==
    [][ on_signal = "raise" =>
          /\ \A q \in Quotes :
                ( /\ dip_op'.op = "update_prices"
                  /\ SignalDue(q[1], q[2])
                  /\ UpdatePrices(q[1], q[2], 0, 0, 0) )
                => /\ IsSome(dip_op'.signal)
                   /\ Val(dip_op'.signal).round_id
                         = Val(current_round').round_id
          /\ ( /\ TimerDue
               /\ Phase = LEG1_FILLED
               /\ StopLossCountdown )
             => /\ Len(sell_signals') = Len(sell_signals) + 1
                /\ sell_signals'[Len(sell_signals')].signal_type = "stop_loss"
                /\ dip_stats'.rounds_stop_loss
                      = dip_stats.rounds_stop_loss + 1
                /\ current_round' = None
                /\ stop_loss_task' = None
                /\ ended' = Some([ round_id |-> Val(current_round).round_id,
                                   phase |-> STOP_LOSS, merged |-> FALSE ])
          /\ ( /\ dip_op'.op = "emergency_exit_leg1"
               /\ Phase = LEG1_FILLED
               /\ EmergencyExitLeg1 )
             => /\ dip_op'.ok
                /\ Len(sell_signals') = Len(sell_signals) + 1
                /\ current_round' = None
                /\ Val(ended').phase = STOP_LOSS
      ]_vars

\* a round timed out with a raising handler registered: it was counted and
\* reset in phase STOP_LOSS
C34_Witness ==
    /\ on_signal = "raise"
    /\ Len(sell_signals) = 1
    /\ sell_signals[1].signal_type = "stop_loss"
    /\ dip_stats.rounds_stop_loss = 1
    /\ current_round = None
    /\ IsSome(ended)
    /\ Val(ended).phase = STOP_LOSS
    /\ Val(ended).round_id = sell_signals[1].round_id

\* C35: an update_prices whose up_ask or down_ask is 0 (missing) is skipped:
\* it returns no signal with target price 0 or 0 shares, and it leaves the
\* round as it was.
C35_MissingAskSkipped ==
    [][ dip_op'.op = "update_prices" =>
          \A q \in WindowQuotes, t \in QuoteTimestamps :
            LET newest == price_history'[Len(price_history')]
            IN  ( /\ q[1] = 0 \/ q[2] = 0
                  /\ newest.up_ask = q[1]
                  /\ newest.down_ask = q[2]
                  /\ UpdatePrices(q[1], q[2], 0, 0, t) )
                => /\ IsSome(dip_op'.signal)
                      => /\ Val(dip_op'.signal).target_price > 0
                         /\ Val(dip_op'.signal).shares > 0
                   /\ current_round' = current_round
      ]_vars

\* C36: when every record_trade follows an approval of check_opportunity
\* for the same market, daily_trades_count never exceeds max_daily_trades,
\* however the calls of the markets evaluated concurrently interleave.
C36_DailyTradeCapUnderInterleaving ==
    rm.daily_trades_count <= rm.max_daily_trades

\* C37: while an emergency_exit_leg1 call awaits its sell function, the
\* update_prices that follows the start of the call emits no Leg2 signal
\* for the round being sold, and the call never ends successfully on a round
\* that a leg-2 fill has completed meanwhile: a round ends in one way only.
C37_RoundEndsInOneWay ==
    [][ exit_call =>
          /\ ( /\ dip_op.op = "emergency_exit_leg1:await"
               /\ dip_op'.op = "update_prices"
               /\ IsSome(dip_op'.signal) )
             => Val(dip_op'.signal).signal_type # "leg2"
          /\ ( /\ dip_op'.op = "emergency_exit_leg1:return"
               /\ dip_op'.ok )
             => Phase # COMPLETED ]_vars

\* C38: the merge task that record_leg2_fill scheduled acts on the round
\* that completed: when it runs, that round is still the current one, in
\* phase COMPLETED, and the merge handler is called exactly once, with the
\* condition id of its market and its leg-1 shares; the task touches no
\* other round.
C38_MergeActsOnCompletedRound ==
    [][ merge_tasks' < merge_tasks =>
          /\ Phase = COMPLETED
          /\ IsSome(market)
          /\ merges' = Append(merges,
                              MergeCall(Val(market),
                                        Val(Val(current_round).leg1).shares,
                                        Val(current_round).round_id)) ]_vars

\* C39: within one trading day check_opportunity approves no trade while
\* daily_pnl is at or below daily_pnl_limit: the manager an approving call
\* leaves behind has its daily_pnl above the limit (the call has applied a
\* day rollover that was due), whether or not the cooldown of the breaker
\* has elapsed.
C39_NoApprovalWhileLimitBreached ==
    ( /\ risk_op.op = "check_opportunity"
      /\ risk_op.ok )
    => rm.daily_pnl > rm.daily_pnl_limit

\* C40: the entry into one arbitrage opportunity is all or nothing: when
\* evaluate has emitted the ENTRY signals of the N outcomes of an
\* opportunity, processing them adds a position for every outcome or for
\* none.
C40_AllOrNothingEntry ==
    [][ ( /\ strategy_op'.op = "evaluate"
          /\ positions' # positions )
        => Len(positions') - Len(positions)
              = Len(Val(strategy_op'.result)) ]_vars

====
